---- MODULE Spec2Model ----
(***************************************************************************)
(* Contract comparison pipeline (luizcg/henry-task-04, python).            *)
(*                                                                         *)
(* The module models                                                       *)
(*   - the pydantic value types of src/models.py (validation, dump),       *)
(*   - the extraction stage's handling of the upstream payload,            *)
(*   - ContractComparisonService.compare and the CLI's process_contracts   *)
(*     as step machines over the same collaborators (parser, two agents,   *)
(*     tracing, progress callback),                                        *)
(*   - the CLI `compare` command and the queue worker's process_message    *)
(*     around those calls,                                                 *)
(*   - the HTTP adapter: POST /compare in both modes, the background task, *)
(*     the progress callback and the two polling endpoints over the        *)
(*     in-memory job store.                                                *)
(*                                                                         *)
(* Python values are tagged records: PyList(s), PyStr(s), None.  A dict is *)
(* a TLA+ record whose DOMAIN is the set of keys that are present.         *)
(***************************************************************************)
EXTENDS Integers, Sequences, FiniteSets, TLC

VARIABLES
    entry,              \* "service" (compare) or "cli" (process_contracts) or "models"
    arg_contract_id,    \* caller-supplied contract_id (None when omitted)
    progress_callback,  \* None, or the behaviour of the caller's callback
    parser,             \* parser collaborator: outcome of parse per document type
    contextualization_agent, \* outcome of contextualization_agent.run
    extraction_agent,   \* outcome of extraction_agent.run
    langfuse,           \* tracing collaborator: where (if anywhere) it raises
    pc,                 \* position inside the running call
    stage,              \* 1..5: the stage the call is at
    contract_id,        \* local contract_id
    now,                \* wall clock (ms ticks)
    start_time,         \* local start_time
    exc,                \* exception in flight (None when there is none)
    locals,             \* original_doc, amendment_doc, contextualization, changes, validated_changes
    trace,              \* the TracingContext of this call
    log,                \* observable events, in order
    ret,                \* the ProcessingResult held for return (None before)
    outcome,            \* "running", "returned" or "raised"
    m_input,            \* models spec: the input under test
    m_result,           \* models spec: the results obtained so far, in order
    m_pc,               \* models spec: "idle", "input" or the last operation applied
    command,            \* CLI `compare` command: its arguments' files, output and exit code
    message,            \* queue worker: the inbound message, its broker, ack and replies
    worker,             \* queue worker: the queue, the delivered messages' tasks, the event loop
    jobs_store,         \* HTTP adapter: job id -> job record (a dict)
    requests,           \* HTTP adapter: the POST /compare requests and how far each has run
    http                \* HTTP adapter: the response being sent by the step just taken

vars == <<entry, arg_contract_id, progress_callback, parser, contextualization_agent,
          extraction_agent, langfuse, pc, stage, contract_id, now, start_time, exc,
          locals, trace, log, ret, outcome, m_input, m_result, m_pc,
          command, message, worker, jobs_store, requests, http>>

pipeVars == <<entry, arg_contract_id, progress_callback, parser, contextualization_agent,
              extraction_agent, langfuse, pc, stage, contract_id, now, start_time, exc,
              locals, trace, log, ret, outcome>>

modelVars == <<m_input, m_result, m_pc>>

cliVars == <<command>>

queueVars == <<message, worker>>

apiVars == <<jobs_store, requests, http>>

adapterVars == <<cliVars, queueVars, apiVars>>

-----------------------------------------------------------------------------
(* Bounds of the model *)

\* longest sections_changed / topics_touched list that is enumerated
MaxListLen == 2

\* how many times the validation step is applied in a row
MaxRevalidations == 2

\* POST /compare requests of one run of the HTTP adapter
MaxRequests == 2

-----------------------------------------------------------------------------
(* Python values *)

None == [t |-> "None"]
PyList(s) == [t |-> "list", v |-> s]
PyStr(s) == [t |-> "str", v |-> s]

\* Python truthiness of a value (used by `x or default`)
Truthy(x) ==
    CASE x.t = "list" -> Len(x.v) > 0
      [] x.t = "str" -> Len(x.v) > 0
      [] OTHER -> FALSE

\* Python `a or b`
PyOr(a, b) == IF Truthy(a) THEN a ELSE b

\* dict.get(key, default)
dict_get(d, key, default) == IF key \in DOMAIN d THEN d[key] ELSE default

\* a string of n characters
RECURSIVE Chars(_)
Chars(n) == IF n = 0 THEN "" ELSE "A" \o Chars(n - 1)

\* exceptions and call outcomes
Exception(type, msg) == [type |-> type, msg |-> msg]
Str(e) == e.msg
Return(v) == [raised |-> FALSE, value |-> v]
Raise(e) == [raised |-> TRUE, exc |-> e]

-----------------------------------------------------------------------------
(* src/models.py: ContractChangeResult *)

MinSectionsChanged == 1
MinTopicsTouched == 1
MinSummaryLength == 50

Fields == <<"sections_changed", "topics_touched", "summary_of_the_change">>
FieldSet == {Fields[i] : i \in 1..Len(Fields)}

\* FieldInvalid with the summary floor off by one (a summary of exactly
\* MinSummaryLength characters is rejected)
FieldInvalid_OffByOne(d, f) ==
    IF f \notin DOMAIN d THEN TRUE
    ELSE CASE f = "sections_changed" ->
                  \/ d[f].t # "list"
                  \/ Len(d[f].v) < MinSectionsChanged
           [] f = "topics_touched" ->
                  \/ d[f].t # "list"
                  \/ Len(d[f].v) < MinTopicsTouched
           [] f = "summary_of_the_change" ->
                  \/ d[f].t # "str"
                  \/ Len(d[f].v) <= MinSummaryLength

\* does field f of the input dict d violate its Field(...) declaration?
FieldInvalid(d, f) ==
    IF f \notin DOMAIN d THEN TRUE
    ELSE CASE f = "sections_changed" ->
                  \/ d[f].t # "list"
                  \/ Len(d[f].v) < MinSectionsChanged
           [] f = "topics_touched" ->
                  \/ d[f].t # "list"
                  \/ Len(d[f].v) < MinTopicsTouched
           [] f = "summary_of_the_change" ->
                  \/ d[f].t # "str"
                  \/ Len(d[f].v) < MinSummaryLength

ValidationErrors(d) == {f \in FieldSet : FieldInvalid(d, f)}

\* str(ValidationError): the offending fields, in declaration order
RECURSIVE ErrorLines(_, _)
ErrorLines(errs, i) ==
    IF i > Len(Fields) THEN ""
    ELSE (IF Fields[i] \in errs THEN " " \o Fields[i] ELSE "") \o ErrorLines(errs, i + 1)

ValidationError(errs) ==
    [type |-> "ValidationError",
     msg |-> "validation error for ContractChangeResult:" \o ErrorLines(errs, 1),
     fields |-> errs]

\* an instance of the model holding the given field values
Instance(fields) == [cls |-> "ContractChangeResult", fields |-> fields]

\* model_validate that accepts its input as it is (as when it is handed an
\* instance rather than its dump)
ContractChangeResult_model_validate_Unchecked(d) ==
    Return(Instance(d))

\* ContractChangeResult.model_validate(d) / ContractChangeResult(**d)
ContractChangeResult_model_validate(d) ==
    LET errs == ValidationErrors(d) IN
    IF errs = {}
    THEN Return(Instance([f \in FieldSet |-> d[f]]))
    ELSE Raise(ValidationError(errs))

\* a dump that carries only the two fields the validation span records
model_dump_SpanInput(inst) ==
    [f \in DOMAIN inst.fields \cap {"sections_changed", "topics_touched"} |-> inst.fields[f]]

\* BaseModel.model_dump(): the dict of the instance's fields
model_dump(inst) == [f \in DOMAIN inst.fields |-> inst.fields[f]]

\* does an instance satisfy every ContractChangeResult invariant?
SatisfiesInvariants(inst) ==
    /\ inst.cls = "ContractChangeResult"
    /\ DOMAIN inst.fields = FieldSet
    /\ inst.fields["sections_changed"].t = "list"
    /\ Len(inst.fields["sections_changed"].v) >= 1
    /\ inst.fields["topics_touched"].t = "list"
    /\ Len(inst.fields["topics_touched"].v) >= 1
    /\ inst.fields["summary_of_the_change"].t = "str"
    /\ Len(inst.fields["summary_of_the_change"].v) >= 50

-----------------------------------------------------------------------------
(* The extraction stage: src/infrastructure/agents/extraction.py            *)
(* (OpenAIExtractionAgent.run) and src/agents/extraction_agent.py           *)
(* (run_extraction_agent); the two bodies are the same from the upstream    *)
(* call onward.                                                             *)
(*                                                                         *)
(* An upstream response is either an error raised by the client,           *)
(*   [kind |-> "error", cls |-> <exception class>],                         *)
(* or a message content, [kind |-> "content", content |-> c], where c is    *)
(* [t |-> "json", v |-> <dict>] (text that is a JSON object) or             *)
(* [t |-> "text"] (text that is not JSON).                                  *)

\* the except clauses with the connection clause ahead of the timeout clause
ApiErrorClauses_ConnectionFirst ==
    << [cls |-> "RateLimitError", msg |-> "OpenAI rate limit exceeded"],
       [cls |-> "APIConnectionError", msg |-> "Failed to connect to OpenAI API"],
       [cls |-> "APITimeoutError", msg |-> "OpenAI API timeout"],
       [cls |-> "APIError", msg |-> "OpenAI API error"] >>

\* the except clauses around the upstream call, in source order
ApiErrorClauses ==
    << [cls |-> "RateLimitError", msg |-> "OpenAI rate limit exceeded"],
       [cls |-> "APITimeoutError", msg |-> "OpenAI API timeout"],
       [cls |-> "APIConnectionError", msg |-> "Failed to connect to OpenAI API"],
       [cls |-> "APIError", msg |-> "OpenAI API error"] >>

ApiErrorClasses == {"RateLimitError", "APITimeoutError", "APIConnectionError", "APIError"}

\* base classes of the client's exception classes (isinstance)
Bases(cls) ==
    CASE cls = "RateLimitError" -> {"RateLimitError", "APIError"}
      [] cls = "APITimeoutError" -> {"APITimeoutError", "APIConnectionError", "APIError"}
      [] cls = "APIConnectionError" -> {"APIConnectionError", "APIError"}
      [] cls = "APIError" -> {"APIError"}
      [] OTHER -> {cls}

\* the first except clause that matches the raised class (0: none does)
RECURSIVE FirstClause(_, _)
FirstClause(cls, i) ==
    IF i > Len(ApiErrorClauses) THEN 0
    ELSE IF ApiErrorClauses[i].cls \in Bases(cls) THEN i
    ELSE FirstClause(cls, i + 1)

\* try: client.chat.completions.create(...) except ...: raise RuntimeError(...)
UpstreamCall(upstream) ==
    IF upstream.kind = "error"
    THEN LET i == FirstClause(upstream.cls, 1) IN
         IF i = 0
         THEN Raise(Exception(upstream.cls, "upstream failure"))
         ELSE Raise(Exception("RuntimeError", ApiErrorClauses[i].msg))
    ELSE Return(upstream.content)

\* the messages of the same four clauses in the parsers, by class
VisionErrorMessage(cls) ==
    CASE cls = "RateLimitError" -> "OpenAI rate limit exceeded. Please wait and retry."
      [] cls = "APITimeoutError" -> "OpenAI API timeout. The image may be too large."
      [] cls = "APIConnectionError" -> "Failed to connect to OpenAI API. Check your network."
      [] OTHER -> "OpenAI API error"

\* the parsers' try/except around client.chat.completions.create(...)
VisionUpstreamCall(upstream) ==
    IF upstream.kind = "error"
    THEN LET i == FirstClause(upstream.cls, 1) IN
         IF i = 0
         THEN Raise(Exception(upstream.cls, "upstream failure"))
         ELSE Raise(Exception("RuntimeError", VisionErrorMessage(ApiErrorClauses[i].cls)))
    ELSE Return(upstream.content)

\* json.loads(content)
json_loads(content) ==
    IF content.t = "json"
    THEN Return(content.v)
    ELSE Raise(Exception("JSONDecodeError", "Expecting value"))

FallbackSections == PyList(<<"General">>)
FallbackTopics == PyList(<<"Contract Terms">>)
FallbackSummary == PyStr("Changes detected between contracts.")

\* the keyword arguments without the `or ["General"]` fallback
ExtractionKwargs_NoSectionsFallback(parsed) ==
    [sections_changed |-> dict_get(parsed, "sections_changed", PyList(<<>>)),
     topics_touched |->
         PyOr(dict_get(parsed, "topics_touched", PyList(<<>>)), FallbackTopics),
     summary_of_the_change |->
         dict_get(parsed, "summary_of_the_change", FallbackSummary)]

\* the keyword arguments built from the parsed payload
ExtractionKwargs(parsed) ==
    [sections_changed |->
         PyOr(dict_get(parsed, "sections_changed", PyList(<<>>)), FallbackSections),
     topics_touched |->
         PyOr(dict_get(parsed, "topics_touched", PyList(<<>>)), FallbackTopics),
     summary_of_the_change |->
         dict_get(parsed, "summary_of_the_change", FallbackSummary)]

\* OpenAIExtractionAgent.run / run_extraction_agent, given the upstream response
OpenAIExtractionAgent_run(upstream) ==
    LET response == UpstreamCall(upstream) IN
    IF response.raised THEN response
    ELSE LET parsed == json_loads(response.value) IN
         IF parsed.raised
         THEN Raise(Exception("ValueError",
                              "Failed to parse Agent 2 response as JSON: " \o Str(parsed.exc)))
         ELSE LET r == ContractChangeResult_model_validate(ExtractionKwargs(parsed.value)) IN
              IF r.raised
              THEN Raise(Exception("ValueError", "Invalid extraction result: " \o Str(r.exc)))
              ELSE r

-----------------------------------------------------------------------------
(* The contextualization stage: the LangChain agent of                      *)
(* src/infrastructure/agents/contextualization.py and the function          *)
(* run_contextualization_agent of src/agents/contextualization_agent.py,    *)
(* given the upstream response. A JSON value is a dict (a record of its     *)
(* keys) or a tagged value (None, a list, a string).                        *)

\* isinstance(x, dict)
IsDict(x) == "t" \notin DOMAIN x

\* a ContextualizationResult whose two structures are exchanged
NewContextualizationResult_Swapped(original_doc, amendment_doc, sections, notes) ==
    [original_structure |-> amendment_doc, amendment_structure |-> original_doc,
     corresponding_sections |-> sections, analysis_notes |-> notes]

\* the ContextualizationResult instance built from the keyword arguments
NewContextualizationResult(original_doc, amendment_doc, sections, notes) ==
    [original_structure |-> original_doc, amendment_structure |-> amendment_doc,
     corresponding_sections |-> sections, analysis_notes |-> notes]

\* ContextualizationResult(...): corresponding_sections is a List[dict] with
\* no schema for its elements, analysis_notes a str
ContextualizationResult_validate(original_doc, amendment_doc, sections, notes) ==
    IF /\ sections.t = "list"
       /\ \A i \in 1..Len(sections.v) : IsDict(sections.v[i])
       /\ notes.t = "str"
    THEN Return(NewContextualizationResult(original_doc, amendment_doc, sections, notes))
    ELSE Raise(Exception("ValidationError",
                         "validation error for ContextualizationResult"))

\* the dict the LangChain agent builds from one element of the payload's list
SectionMappingDict(s) ==
    [original_section |-> dict_get(s, "original_section", PyStr("")),
     amendment_section |-> dict_get(s, "amendment_section", PyStr("")),
     status |-> dict_get(s, "status", PyStr("modified"))]

\* self.chain.invoke(...): prompt | llm | JsonOutputParser; every exception,
\* the parser's on text that is not JSON included, becomes a RuntimeError
chain_invoke(upstream) ==
    IF upstream.kind = "error"
    THEN Raise(Exception("RuntimeError", "LangChain agent error: " \o upstream.cls))
    ELSE LET parsed == json_loads(upstream.content) IN
         IF parsed.raised
         THEN Raise(Exception("RuntimeError", "LangChain agent error: Invalid json output"))
         ELSE parsed

\* LangChainContextualizationAgent.run(original_doc, amendment_doc, trace)
LangChainContextualizationAgent_run(upstream, original_doc, amendment_doc) ==
    LET result == chain_invoke(upstream) IN
    IF result.raised THEN result
    ELSE IF ~IsDict(result.value)
    THEN Raise(Exception("AttributeError", "object has no attribute 'get'"))
    ELSE LET listed == dict_get(result.value, "corresponding_sections", PyList(<<>>)) IN
         IF listed.t # "list"
         THEN Raise(Exception("TypeError", "object is not iterable"))
         ELSE IF \E i \in 1..Len(listed.v) : ~IsDict(listed.v[i])
         THEN Raise(Exception("AttributeError",
                              "object has no attribute 'original_section'"))
         ELSE LET corresponding_sections ==
                      PyList([i \in 1..Len(listed.v) |-> SectionMappingDict(listed.v[i])])
                  r == ContextualizationResult_validate(
                           original_doc, amendment_doc, corresponding_sections,
                           dict_get(result.value, "analysis_notes", PyStr(""))) IN
              IF r.raised
              THEN Raise(Exception("ValueError",
                                   "Invalid contextualization result: " \o Str(r.exc)))
              ELSE r

\* run_contextualization_agent(original_doc, amendment_doc, trace)
run_contextualization_agent(upstream, original_doc, amendment_doc) ==
    LET response == UpstreamCall(upstream) IN
    IF response.raised THEN response
    ELSE LET parsed == json_loads(response.value) IN
         IF parsed.raised
         THEN Raise(Exception("ValueError",
                              "Failed to parse Agent 1 response as JSON: " \o Str(parsed.exc)))
         ELSE IF ~IsDict(parsed.value)
         THEN Raise(Exception("AttributeError", "object has no attribute 'get'"))
         ELSE LET r == ContextualizationResult_validate(
                           original_doc, amendment_doc,
                           dict_get(parsed.value, "corresponding_sections", PyList(<<>>)),
                           dict_get(parsed.value, "analysis_notes", PyStr(""))) IN
              IF r.raised
              THEN Raise(Exception("ValueError",
                                   "Invalid contextualization result: " \o Str(r.exc)))
              ELSE r

-----------------------------------------------------------------------------
(* Collaborators of the pipeline *)

OriginalImagePath == "mock://original"
AmendmentImagePath == "mock://amendment"

\* MockParser.parse: the DocumentStructure a successful parse returns
MockDocument(document_type) ==
    [title |-> IF document_type = "original"
               THEN "Mock Original Contract" ELSE "Mock Amendment Contract",
     sections |-> <<"Section 1", "Section 2", "Section 3">>,
     full_text |-> "This is a mock " \o document_type \o " contract for testing purposes.",
     document_type |-> document_type]

\* ImageParserStrategy.parse(image_path, document_type, trace): returns a
\* DocumentStructure or raises, as the injected parser p behaves: "ok",
\* "raise" (the image is missing), or the class of the error the vision
\* client raises to a parser that read the image
parser_parse(p, image_path, document_type) ==
    IF p[document_type] = "ok"
    THEN Return(MockDocument(document_type))
    ELSE IF p[document_type] = "raise"
    THEN Raise(Exception("FileNotFoundError", "Image not found: " \o image_path))
    ELSE VisionUpstreamCall([kind |-> "error", cls |-> p[document_type]])

\* ContextualizationAgent.run(original_doc, amendment_doc, trace)
contextualization_run(agent, original_doc, amendment_doc) ==
    IF agent = "ok"
    THEN Return([original_structure |-> original_doc,
                 amendment_structure |-> amendment_doc,
                 corresponding_sections |->
                     << [original_section |-> "2. Terms",
                         amendment_section |-> "2. Terms (Amended)",
                         relationship |-> "modified"] >>,
                 analysis_notes |-> "The amendment modifies the Terms section."])
    ELSE Raise(Exception("RuntimeError", "LangChain agent error"))

\* ExtractionAgent.run(contextualization, trace): the production agent fed by
\* its upstream response, or a stub that returns/raises what it was built with
extraction_run(agent, contextualization) ==
    IF agent.impl = "openai"
    THEN OpenAIExtractionAgent_run(agent.upstream)
    ELSE agent.returns

-----------------------------------------------------------------------------
(* The parsing stage: OpenAIVisionParser of                                 *)
(* src/infrastructure/parsers/openai_parser.py with the helpers of          *)
(* parsers/base.py, and parse_contract_image of src/image_parser.py with    *)
(* its own helpers. An image is what its path refers to:                    *)
(* [exists, suffix, st_size]. A run yields its outcome and the upstream     *)
(* vision calls it made.                                                    *)

SUPPORTED_FORMATS == {".jpg", ".jpeg", ".png", ".gif", ".webp"}
MAX_IMAGE_SIZE_MB == 20
MegaByte == 1024 * 1024

\* str.lower() on the suffixes of the model
lower(suffix) ==
    CASE suffix = ".JPG" -> ".jpg"
      [] suffix = ".PNG" -> ".png"
      [] OTHER -> suffix

\* src/image_parser.py validate_image(image_path)
validate_image(image) ==
    IF ~image.exists
    THEN Raise(Exception("FileNotFoundError", "Image file not found"))
    ELSE IF lower(image.suffix) \notin SUPPORTED_FORMATS
    THEN Raise(Exception("ValueError", "Unsupported image format: " \o image.suffix))
    ELSE IF image.st_size > MAX_IMAGE_SIZE_MB * MegaByte
    THEN Raise(Exception("ValueError", "Image too large"))
    ELSE Return(image)

\* src/image_parser.py encode_image_base64(image_path): validate, then read
image_parser_encode_image_base64(image) ==
    LET path == validate_image(image) IN
    IF path.raised THEN path ELSE Return("base64")

\* parsers/base.py encode_image_base64(image_path): open(image_path, "rb")
encode_image_base64(image) ==
    IF ~image.exists
    THEN Raise(Exception("FileNotFoundError", "No such file or directory"))
    ELSE Return("base64")

\* get_image_media_type(image_path): media_types.get(ext, "image/jpeg")
get_image_media_type(image) ==
    LET ext == lower(image.suffix) IN
    CASE ext \in {".jpg", ".jpeg"} -> "image/jpeg"
      [] ext = ".png" -> "image/png"
      [] ext = ".gif" -> "image/gif"
      [] ext = ".webp" -> "image/webp"
      [] OTHER -> "image/jpeg"

\* DocumentStructure(title=..., sections=..., full_text=..., document_type=...)
DocumentStructure_validate(title, sections, full_text, document_type) ==
    IF /\ title.t = "str" /\ Len(title.v) >= 1
       /\ sections.t = "list" /\ Len(sections.v) >= 1
       /\ full_text.t = "str" /\ Len(full_text.v) >= 10
    THEN Return([title |-> title.v, sections |-> sections.v, full_text |-> full_text.v,
                 document_type |-> document_type])
    ELSE Raise(Exception("ValidationError", "validation error for DocumentStructure"))

\* the sections argument without the `or ["General"]` fallback
SectionsArgument_NoFallback(parsed) ==
    dict_get(parsed, "sections", PyList(<<>>))

\* parsed.get("sections", []) or ["General"]
SectionsArgument(parsed) ==
    PyOr(dict_get(parsed, "sections", PyList(<<>>)), FallbackSections)

\* from the upstream call to the returned DocumentStructure
ParseVisionResponse(upstream, document_type) ==
    LET response == VisionUpstreamCall(upstream) IN
    IF response.raised THEN response
    ELSE LET parsed == json_loads(response.value) IN
         IF parsed.raised
         THEN Raise(Exception("ValueError",
                              "Failed to parse LLM response as JSON: " \o Str(parsed.exc)))
         ELSE LET r == DocumentStructure_validate(
                           dict_get(parsed.value, "title", PyStr("Unknown")),
                           SectionsArgument(parsed.value),
                           dict_get(parsed.value, "full_text", PyStr("")),
                           document_type) IN
              IF r.raised
              THEN Raise(Exception("ValueError",
                                   "Invalid document structure from LLM: " \o Str(r.exc)))
              ELSE r

\* the upstream vision call made with the encoded image
VisionCall(image, document_type) ==
    [fn |-> "openai.chat.completions.create", document_type |-> document_type,
     media_type |-> get_image_media_type(image)]

\* the outcome of a parse and the upstream calls it made
Parsed(r, calls) == [outcome |-> r, calls |-> calls]

\* OpenAIVisionParser.parse(image_path, document_type, trace)
OpenAIVisionParser_parse(image, document_type, upstream) ==
    LET base64_image == encode_image_base64(image) IN
    IF base64_image.raised THEN Parsed(base64_image, <<>>)
    ELSE Parsed(ParseVisionResponse(upstream, document_type),
                <<VisionCall(image, document_type)>>)

\* src/image_parser.py parse_contract_image(image_path, document_type, trace)
parse_contract_image(image, document_type, upstream) ==
    LET base64_image == image_parser_encode_image_base64(image) IN
    IF base64_image.raised THEN Parsed(base64_image, <<>>)
    ELSE Parsed(ParseVisionResponse(upstream, document_type),
                <<VisionCall(image, document_type)>>)

\* MockParser.parse(image_path, document_type, trace)
MockParser_parse(image, document_type, upstream) ==
    Parsed(Return(MockDocument(document_type)), <<>>)

-----------------------------------------------------------------------------
(* The generation record of a stage's upstream call: trace.generation(...)   *)
(* returns langfuse.start_generation(...), an observation that stays open    *)
(* until its end() is called (tracing.py 89-106).                            *)

GenerationStart(name) == [ev |-> "generation_start", name |-> name]
GenerationUpdate(name) == [ev |-> "generation_update", name |-> name]
GenerationEnd(name) == [ev |-> "generation_end", name |-> name]

\* the generation events of one stage call: the record is started before the
\* body when a trace is given; update() and end() follow the upstream call
\* in straight-line code, so they run only when the code before them
\* (before_call, the upstream call) did not raise
GenerationEvents(name, traced, before_call, response) ==
    IF ~traced THEN <<>>
    ELSE IF before_call.raised \/ response.raised THEN <<GenerationStart(name)>>
    ELSE <<GenerationStart(name), GenerationUpdate(name), GenerationEnd(name)>>

\* OpenAIVisionParser.parse: the generation events of a call
OpenAIVisionParser_parse_generation(image, document_type, upstream, traced) ==
    GenerationEvents("parse_" \o document_type \o "_llm_call", traced,
                     encode_image_base64(image), VisionUpstreamCall(upstream))

\* OpenAIExtractionAgent.run: the generation events of a call
OpenAIExtractionAgent_run_generation(upstream, traced) ==
    GenerationEvents("agent2_llm_call", traced, Return(None), UpstreamCall(upstream))

-----------------------------------------------------------------------------
(* The result envelope *)

\* ProcessingResult(contract_id=..., status=..., result=..., error=..., trace_id=...)
ProcessingResult(cid, status, result, error, trace_id) ==
    [contract_id |-> cid, status |-> status, result |-> result,
     error |-> error, trace_id |-> trace_id]

\* ProcessingResult.model_validate(data): contract_id a str, status a str
\* matching ^(success|error)$, result a ContractChangeResult or None, error
\* and trace_id a str or None; no validator relates the fields to each other
ProcessingResult_model_validate(d) ==
    LET result == dict_get(d, "result", None)
        error == dict_get(d, "error", None)
        trace_id == dict_get(d, "trace_id", None)
        validated == IF result = None THEN Return(None)
                     ELSE IF IsDict(result) THEN ContractChangeResult_model_validate(result)
                     ELSE Raise(Exception("ValidationError", "Input should be a dictionary"))
    IN
    IF /\ "contract_id" \in DOMAIN d /\ d.contract_id.t = "str"
       /\ "status" \in DOMAIN d /\ d.status.t = "str" /\ d.status.v \in {"success", "error"}
       /\ ~validated.raised
       /\ error.t \in {"None", "str"}
       /\ trace_id.t \in {"None", "str"}
    THEN Return(ProcessingResult(d.contract_id, d.status.v, validated.value, error, trace_id))
    ELSE Raise(Exception("ValidationError", "validation error for ProcessingResult"))

\* the processing_time_ms field of the service's envelope
WithProcessingTime(envelope, processing_time_ms) ==
    [f \in DOMAIN envelope \cup {"processing_time_ms"} |->
         IF f = "processing_time_ms" THEN processing_time_ms ELSE envelope[f]]

-----------------------------------------------------------------------------
(* ContractComparisonService.compare: the stage table *)

SpanName == <<"parse_original_contract", "parse_amendment_contract",
              "agent1_contextualization", "agent2_extraction", "pydantic_validation">>
StepLabel == <<"Step 1/5", "Step 2/5", "Step 3/5", "Step 4/5", "Step 5/5">>
BeforeProgress == <<10, 30, 50, 70, 90>>
\* AfterProgress with the last after-stage percentage mistyped
AfterProgress_Mistyped == <<20, 40, 60, 95>>
AfterProgress == <<20, 40, 60, 85>>
NumStages == Len(SpanName)

ProgressEvents(l) == SelectSeq(l, LAMBDA e : e.ev = "progress")

\* report_progress(step, progress, message): whether the callback is invoked
\* and whether that invocation raises
report_progress(step, progress) ==
    IF progress_callback = None
    THEN [called |-> FALSE, raised |-> FALSE]
    ELSE [called |-> TRUE,
          raised |-> progress_callback.raises_at = Len(ProgressEvents(log)) + 1]

ProgressEvent(step, progress, r) ==
    [ev |-> "progress", step |-> step, progress |-> progress, raised |-> r.raised]

CallbackError == Exception("CallbackError", "progress callback failed")

\* the stage bodies with the two documents handed to contextualization exchanged
StageCall_SwapsDocuments(k) ==
    CASE k = 1 ->
           [event |-> [ev |-> "call", fn |-> "parser.parse",
                       args |-> <<OriginalImagePath, "original">>],
            result |-> parser_parse(parser, OriginalImagePath, "original"),
            local |-> "original_doc"]
      [] k = 2 ->
           [event |-> [ev |-> "call", fn |-> "parser.parse",
                       args |-> <<AmendmentImagePath, "amendment">>],
            result |-> parser_parse(parser, AmendmentImagePath, "amendment"),
            local |-> "amendment_doc"]
      [] k = 3 ->
           [event |-> [ev |-> "call", fn |-> "contextualization_agent.run",
                       args |-> <<locals.amendment_doc, locals.original_doc>>],
            result |-> contextualization_run(contextualization_agent,
                                             locals.amendment_doc, locals.original_doc),
            local |-> "contextualization"]
      [] k = 4 ->
           [event |-> [ev |-> "call", fn |-> "extraction_agent.run",
                       args |-> <<locals.contextualization>>],
            result |-> LET r == extraction_run(extraction_agent, locals.contextualization) IN
                       IF r.raised THEN r
                       ELSE IF {"sections_changed", "topics_touched"} \subseteq DOMAIN r.value.fields
                            THEN r
                            ELSE Raise(Exception("AttributeError",
                                                 "object has no attribute")),
            local |-> "changes"]
      [] k = 5 ->
           [event |-> [ev |-> "validate"],
            result |-> ContractChangeResult_model_validate(model_dump(locals.changes)),
            local |-> "validated_changes"]

\* the body of stage k's `with trace.span(...)` block: the event it records,
\* the outcome of the call (and of reading its result for span.update), and
\* the local the result is bound to
StageCall(k) ==
    CASE k = 1 ->
           [event |-> [ev |-> "call", fn |-> "parser.parse",
                       args |-> <<OriginalImagePath, "original">>],
            result |-> parser_parse(parser, OriginalImagePath, "original"),
            local |-> "original_doc"]
      [] k = 2 ->
           [event |-> [ev |-> "call", fn |-> "parser.parse",
                       args |-> <<AmendmentImagePath, "amendment">>],
            result |-> parser_parse(parser, AmendmentImagePath, "amendment"),
            local |-> "amendment_doc"]
      [] k = 3 ->
           [event |-> [ev |-> "call", fn |-> "contextualization_agent.run",
                       args |-> <<locals.original_doc, locals.amendment_doc>>],
            result |-> contextualization_run(contextualization_agent,
                                             locals.original_doc, locals.amendment_doc),
            local |-> "contextualization"]
      [] k = 4 ->
           [event |-> [ev |-> "call", fn |-> "extraction_agent.run",
                       args |-> <<locals.contextualization>>],
            result |-> LET r == extraction_run(extraction_agent, locals.contextualization) IN
                       IF r.raised THEN r
                       ELSE IF {"sections_changed", "topics_touched"} \subseteq DOMAIN r.value.fields
                            THEN r
                            ELSE Raise(Exception("AttributeError",
                                                 "object has no attribute")),
            local |-> "changes"]
      [] k = 5 ->
           [event |-> [ev |-> "validate"],
            result |-> ContractChangeResult_model_validate(model_dump(locals.changes)),
            local |-> "validated_changes"]

\* RunStage with a stage failure swallowed: the call goes on to the next stage
RunStage_Swallows(k, okPc) ==
    IF langfuse = "span"
    THEN /\ exc' = Exception("TracingError", "span could not be started")
         /\ pc' = "except"
         /\ UNCHANGED <<log, locals, now>>
    ELSE LET c == StageCall(k) IN
         /\ log' = log \o << [ev |-> "span_open", name |-> SpanName[k]],
                             c.event,
                             [ev |-> "span_close", name |-> SpanName[k],
                              error |-> IF c.result.raised THEN c.result.exc ELSE None] >>
         /\ now' = now + 1
         /\ pc' = okPc
         /\ IF c.result.raised
            THEN UNCHANGED <<locals, exc>>
            ELSE /\ locals' = [locals EXCEPT ![c.local] = c.result.value]
                 /\ UNCHANGED exc

\* TracingContext.span(name): a child span around the block; the span is
\* closed when the block is left, normally or by an exception
RunStage(k, okPc) ==
    IF langfuse = "span"
    THEN /\ exc' = Exception("TracingError", "span could not be started")
         /\ pc' = "except"
         /\ UNCHANGED <<log, locals, now>>
    ELSE LET c == StageCall(k) IN
         /\ log' = log \o << [ev |-> "span_open", name |-> SpanName[k]],
                             c.event,
                             [ev |-> "span_close", name |-> SpanName[k],
                              error |-> IF c.result.raised THEN c.result.exc ELSE None] >>
         /\ now' = now + 1
         /\ IF c.result.raised
            THEN /\ exc' = c.result.exc
                 /\ pc' = "except"
                 /\ UNCHANGED locals
            ELSE /\ locals' = [locals EXCEPT ![c.local] = c.result.value]
                 /\ pc' = okPc
                 /\ UNCHANGED exc

-----------------------------------------------------------------------------
(* src/tracing.py: TracingContext *)

NoTrace == [entered |-> 0, exited |-> 0, flushed |-> 0, session_id |-> None,
            trace_id |-> None, root_output |-> None]

\* create_trace(...).__enter__(): start the root span, read the trace id
TracingContext_enter ==
    IF langfuse = "enter"
    THEN /\ exc' = Exception("TracingError", "root span could not be started")
         /\ outcome' = "raised"
         /\ pc' = "done"
         /\ UNCHANGED <<trace, log, stage>>
    ELSE /\ trace' = [trace EXCEPT !.entered = @ + 1, !.session_id = contract_id',
                                  !.trace_id = PyStr("trace-1")]
         /\ log' = Append(log, [ev |-> "trace_open"])
         /\ pc' = IF entry = "service" THEN "before" ELSE "stage"
         /\ stage' = 1
         /\ UNCHANGED <<exc, outcome>>

\* TracingContext.__exit__ that flushes only when the envelope reports success
TracingContext_exit_FlushOnSuccessOnly ==
    /\ entry \in {"service", "cli"}
    /\ pc = "exit"
    /\ pc' = "done"
    /\ IF langfuse = "update"
       THEN /\ exc' = Exception("TracingError", "root span update failed")
            /\ outcome' = "raised"
            /\ ret' = None
            /\ UNCHANGED <<trace, log>>
       ELSE IF langfuse = "flush"
       THEN /\ trace' = [trace EXCEPT !.root_output = [status |-> "success"],
                                      !.exited = @ + 1]
            /\ log' = Append(log, [ev |-> "trace_close"])
            /\ exc' = Exception("TracingError", "flush failed")
            /\ outcome' = "raised"
            /\ ret' = None
       ELSE IF ret.status = "success"
       THEN /\ trace' = [trace EXCEPT !.root_output = [status |-> "success"],
                                      !.exited = @ + 1,
                                      !.flushed = @ + 1]
            /\ log' = log \o << [ev |-> "trace_close"], [ev |-> "flush"] >>
            /\ outcome' = "returned"
            /\ UNCHANGED <<exc, ret>>
       ELSE /\ trace' = [trace EXCEPT !.root_output = [status |-> "success"],
                                      !.exited = @ + 1]
            /\ log' = Append(log, [ev |-> "trace_close"])
            /\ outcome' = "returned"
            /\ UNCHANGED <<exc, ret>>
    /\ UNCHANGED <<entry, arg_contract_id, progress_callback, parser,
                   contextualization_agent, extraction_agent, langfuse, stage,
                   contract_id, now, start_time, locals>>
    /\ UNCHANGED <<modelVars, adapterVars>>

\* TracingContext.__exit__ when the with block is left by `return` or by
\* falling off its end (exc_type is None), followed by the function's return
TracingContext_exit ==
    /\ entry \in {"service", "cli"}
    /\ pc = "exit"
    /\ pc' = "done"
    /\ IF langfuse = "update"
       THEN /\ exc' = Exception("TracingError", "root span update failed")
            /\ outcome' = "raised"
            /\ ret' = None
            /\ UNCHANGED <<trace, log>>
       ELSE IF langfuse = "flush"
       THEN /\ trace' = [trace EXCEPT !.root_output = [status |-> "success"],
                                      !.exited = @ + 1]
            /\ log' = Append(log, [ev |-> "trace_close"])
            /\ exc' = Exception("TracingError", "flush failed")
            /\ outcome' = "raised"
            /\ ret' = None
       ELSE /\ trace' = [trace EXCEPT !.root_output = [status |-> "success"],
                                      !.exited = @ + 1,
                                      !.flushed = @ + 1]
            /\ log' = log \o << [ev |-> "trace_close"], [ev |-> "flush"] >>
            /\ outcome' = "returned"
            /\ UNCHANGED <<exc, ret>>
    /\ UNCHANGED <<entry, arg_contract_id, progress_callback, parser,
                   contextualization_agent, extraction_agent, langfuse, stage,
                   contract_id, now, start_time, locals>>
    /\ UNCHANGED <<modelVars, adapterVars>>

-----------------------------------------------------------------------------
(* ContractComparisonService.compare, step by step *)

inputVars == <<entry, arg_contract_id, progress_callback, parser,
               contextualization_agent, extraction_agent, langfuse>>

\* contract_id = contract_id or str(uuid.uuid4()); start_time; with create_trace(...)
Compare_Enter ==
    /\ entry = "service"
    /\ pc = "start"
    /\ contract_id' = PyOr(arg_contract_id, PyStr("uuid4-1"))
    /\ start_time' = now
    /\ TracingContext_enter
    /\ UNCHANGED <<inputVars, now, locals, ret>>
    /\ UNCHANGED <<modelVars, adapterVars>>

\* report_progress(step, 10/30/50/70/90, ...) ahead of stage `stage`
Compare_ReportBefore ==
    /\ entry = "service"
    /\ pc = "before"
    /\ LET r == report_progress(StepLabel[stage], BeforeProgress[stage]) IN
       /\ log' = IF r.called
                 THEN Append(log, ProgressEvent(StepLabel[stage], BeforeProgress[stage], r))
                 ELSE log
       /\ IF r.raised
          THEN exc' = CallbackError /\ pc' = "except"
          ELSE pc' = "stage" /\ UNCHANGED exc
    /\ UNCHANGED <<inputVars, stage, contract_id, now, start_time, locals, trace, ret, outcome>>
    /\ UNCHANGED <<modelVars, adapterVars>>

\* a stage block whose span is closed only when the block is left normally
Compare_RunStage_LeavesSpanOpen ==
    /\ entry = "service"
    /\ pc = "stage"
    /\ IF langfuse = "span"
       THEN /\ exc' = Exception("TracingError", "span could not be started")
            /\ pc' = "except"
            /\ UNCHANGED <<log, locals, now>>
       ELSE LET c == StageCall(stage) IN
            /\ now' = now + 1
            /\ IF c.result.raised
               THEN /\ log' = log \o << [ev |-> "span_open", name |-> SpanName[stage]],
                                        c.event >>
                    /\ exc' = c.result.exc
                    /\ pc' = "except"
                    /\ UNCHANGED locals
               ELSE /\ log' = log \o << [ev |-> "span_open", name |-> SpanName[stage]],
                                        c.event,
                                        [ev |-> "span_close", name |-> SpanName[stage],
                                         error |-> None] >>
                    /\ locals' = [locals EXCEPT ![c.local] = c.result.value]
                    /\ pc' = IF stage < NumStages THEN "after" ELSE "completed"
                    /\ UNCHANGED exc
    /\ UNCHANGED <<inputVars, stage, contract_id, start_time, trace, ret, outcome>>
    /\ UNCHANGED <<modelVars, adapterVars>>

\* the with-block of stage `stage` (parse, parse, contextualize, extract, validate)
Compare_RunStage ==
    /\ entry = "service"
    /\ pc = "stage"
    /\ RunStage(stage, IF stage < NumStages THEN "after" ELSE "completed")
    /\ UNCHANGED <<inputVars, stage, contract_id, start_time, trace, ret, outcome>>
    /\ UNCHANGED <<modelVars, adapterVars>>

\* Compare_ReportAfter that moves on past the amendment parse
Compare_ReportAfter_SkipsStage ==
    /\ entry = "service"
    /\ pc = "after"
    /\ LET r == report_progress(StepLabel[stage], AfterProgress[stage]) IN
       /\ log' = IF r.called
                 THEN Append(log, ProgressEvent(StepLabel[stage], AfterProgress[stage], r))
                 ELSE log
       /\ IF r.raised
          THEN exc' = CallbackError /\ pc' = "except" /\ UNCHANGED stage
          ELSE pc' = "before" /\ stage' = (IF stage = 1 THEN 3 ELSE stage + 1) /\ UNCHANGED exc
    /\ UNCHANGED <<inputVars, contract_id, now, start_time, locals, trace, ret, outcome>>
    /\ UNCHANGED <<modelVars, adapterVars>>

\* report_progress(step, 20/40/60/85, ...) after stage `stage` returned
Compare_ReportAfter ==
    /\ entry = "service"
    /\ pc = "after"
    /\ LET r == report_progress(StepLabel[stage], AfterProgress[stage]) IN
       /\ log' = IF r.called
                 THEN Append(log, ProgressEvent(StepLabel[stage], AfterProgress[stage], r))
                 ELSE log
       /\ IF r.raised
          THEN exc' = CallbackError /\ pc' = "except" /\ UNCHANGED stage
          ELSE pc' = "before" /\ stage' = stage + 1 /\ UNCHANGED exc
    /\ UNCHANGED <<inputVars, contract_id, now, start_time, locals, trace, ret, outcome>>
    /\ UNCHANGED <<modelVars, adapterVars>>

\* Compare_Completed that builds the success envelope without the trace id
Compare_Completed_NoTraceId ==
    /\ entry = "service"
    /\ pc = "completed"
    /\ LET processing_time_ms == now - start_time
           r == report_progress("Completed", 100) IN
       /\ log' = IF r.called
                 THEN Append(log, ProgressEvent("Completed", 100, r))
                 ELSE log
       /\ IF r.raised
          THEN exc' = CallbackError /\ pc' = "except" /\ UNCHANGED ret
          ELSE /\ ret' = WithProcessingTime(
                             ProcessingResult(contract_id, "success",
                                              locals.validated_changes, None,
                                              None),
                             processing_time_ms)
               /\ pc' = "exit"
               /\ UNCHANGED exc
    /\ UNCHANGED <<inputVars, stage, contract_id, now, start_time, locals, trace, outcome>>
    /\ UNCHANGED <<modelVars, adapterVars>>

\* processing_time_ms; report_progress("Completed", 100, ...); return ProcessingResult(success)
Compare_Completed ==
    /\ entry = "service"
    /\ pc = "completed"
    /\ LET processing_time_ms == now - start_time
           r == report_progress("Completed", 100) IN
       /\ log' = IF r.called
                 THEN Append(log, ProgressEvent("Completed", 100, r))
                 ELSE log
       /\ IF r.raised
          THEN exc' = CallbackError /\ pc' = "except" /\ UNCHANGED ret
          ELSE /\ ret' = WithProcessingTime(
                             ProcessingResult(contract_id, "success",
                                              locals.validated_changes, None,
                                              trace.trace_id),
                             processing_time_ms)
               /\ pc' = "exit"
               /\ UNCHANGED exc
    /\ UNCHANGED <<inputVars, stage, contract_id, now, start_time, locals, trace, outcome>>
    /\ UNCHANGED <<modelVars, adapterVars>>

\* Compare_Except that hands back what the stages produced so far
Compare_Except_PartialResult ==
    /\ entry = "service"
    /\ pc = "except"
    /\ LET processing_time_ms == now - start_time IN
       ret' = WithProcessingTime(
                  ProcessingResult(contract_id, "error", locals.changes, PyStr(Str(exc)),
                                   trace.trace_id),
                  processing_time_ms)
    /\ exc' = None
    /\ pc' = "exit"
    /\ UNCHANGED <<inputVars, stage, contract_id, now, start_time, locals, trace, log, outcome>>
    /\ UNCHANGED <<modelVars, adapterVars>>

\* except Exception as e: return ProcessingResult(error)
Compare_Except ==
    /\ entry = "service"
    /\ pc = "except"
    /\ LET processing_time_ms == now - start_time IN
       ret' = WithProcessingTime(
                  ProcessingResult(contract_id, "error", None, PyStr(Str(exc)),
                                   trace.trace_id),
                  processing_time_ms)
    /\ exc' = None
    /\ pc' = "exit"
    /\ UNCHANGED <<inputVars, stage, contract_id, now, start_time, locals, trace, log, outcome>>
    /\ UNCHANGED <<modelVars, adapterVars>>

-----------------------------------------------------------------------------
(* src/main.py: process_contracts, step by step *)

\* contract_id = contract_id or str(uuid.uuid4()); with create_trace(...)
ProcessContracts_Enter ==
    /\ entry = "cli"
    /\ pc = "start"
    /\ contract_id' = PyOr(arg_contract_id, PyStr("uuid4-1"))
    /\ TracingContext_enter
    /\ UNCHANGED <<inputVars, now, start_time, locals, ret>>
    /\ UNCHANGED <<modelVars, adapterVars>>

\* typer.echo("[k/5] ...") and the with-block of stage `stage`
ProcessContracts_RunStage ==
    /\ entry = "cli"
    /\ pc = "stage"
    /\ RunStage(stage, IF stage < NumStages THEN "stage" ELSE "completed")
    /\ stage' = IF langfuse # "span" /\ ~StageCall(stage).result.raised /\ stage < NumStages
                THEN stage + 1 ELSE stage
    /\ UNCHANGED <<inputVars, contract_id, start_time, trace, ret, outcome>>
    /\ UNCHANGED <<modelVars, adapterVars>>

\* result = ProcessingResult(success); echo the contract id and the trace url
ProcessContracts_Success ==
    /\ entry = "cli"
    /\ pc = "completed"
    /\ ret' = ProcessingResult(contract_id, "success", locals.validated_changes,
                               None, trace.trace_id)
    /\ pc' = "exit"
    /\ UNCHANGED <<inputVars, stage, contract_id, now, start_time, exc, locals, trace,
                   log, outcome>>
    /\ UNCHANGED <<modelVars, adapterVars>>

\* except ValidationError as e: result = ProcessingResult(error="Validation error: ...")
ProcessContracts_ValidationError ==
    /\ entry = "cli"
    /\ pc = "except"
    /\ exc.type = "ValidationError"
    /\ ret' = ProcessingResult(contract_id, "error", None,
                               PyStr("Validation error: " \o Str(exc)), trace.trace_id)
    /\ exc' = None
    /\ pc' = "exit"
    /\ UNCHANGED <<inputVars, stage, contract_id, now, start_time, locals, trace, log, outcome>>
    /\ UNCHANGED <<modelVars, adapterVars>>

\* except Exception as e: result = ProcessingResult(error=str(e))
ProcessContracts_Exception ==
    /\ entry = "cli"
    /\ pc = "except"
    /\ exc.type # "ValidationError"
    /\ ret' = ProcessingResult(contract_id, "error", None, PyStr(Str(exc)), trace.trace_id)
    /\ exc' = None
    /\ pc' = "exit"
    /\ UNCHANGED <<inputVars, stage, contract_id, now, start_time, locals, trace, log, outcome>>
    /\ UNCHANGED <<modelVars, adapterVars>>

-----------------------------------------------------------------------------
(* src/main.py: the `compare` command around process_contracts *)

\* the local state of a call other than its position
callVars == <<stage, contract_id, now, start_time, exc, locals, trace, log, ret, outcome>>

\* BaseModel.model_dump_json() of an envelope: a JSON document of its fields,
\* the nested result dumped as a dict
model_dump_json(envelope) ==
    [t |-> "json",
     v |-> [f \in DOMAIN envelope |->
               IF f = "result" /\ envelope.result # None
               THEN model_dump(envelope.result)
               ELSE envelope[f]]]

\* a command line: do the two paths exist, and where the output goes
NewCommand(original_exists, amendment_exists, output) ==
    [original_exists |-> original_exists, amendment_exists |-> amendment_exists,
     output |-> output, stdout |-> <<>>, stderr |-> <<>>, written |-> None,
     exited |-> FALSE, exit_code |-> 0]

\* typer.echo(..., err=True); raise typer.Exit(1)
ExitWithError(text) ==
    [command EXCEPT !.stderr = Append(@, text), !.exited = TRUE, !.exit_code = 1]

\* compare(): the two path checks ahead of process_contracts
Cli_compare_Start ==
    /\ entry = "cli"
    /\ pc = "command"
    /\ IF ~command.original_exists
       THEN command' = ExitWithError("Error: Original contract not found") /\ pc' = "exited"
       ELSE IF ~command.amendment_exists
       THEN command' = ExitWithError("Error: Amendment not found") /\ pc' = "exited"
       ELSE pc' = "start" /\ UNCHANGED command
    /\ UNCHANGED <<inputVars, callVars, modelVars, queueVars, apiVars>>

\* compare() after process_contracts: write or echo the JSON, then the exit
\* code; an exception leaving process_contracts ends the command with code 1
Cli_compare_Finish_ExitBeforeOutput ==
    /\ entry = "cli"
    /\ pc = "done"
    /\ pc' = "exited"
    /\ IF outcome = "raised"
       THEN command' = [command EXCEPT !.exited = TRUE, !.exit_code = 1]
       ELSE LET json_output == model_dump_json(ret) IN
            IF ret.status = "error"
            THEN command' = [command EXCEPT !.exited = TRUE, !.exit_code = 1]
            ELSE command' =
                   [command EXCEPT
                      !.written = IF Truthy(command.output) THEN json_output ELSE @,
                      !.stdout = IF Truthy(command.output)
                                 THEN Append(@, [line |-> "Output saved to", v |-> command.output])
                                 ELSE @ \o << [line |-> "--- Result ---", v |-> None],
                                              [line |-> "json_output", v |-> json_output] >>,
                      !.exited = TRUE,
                      !.exit_code = 0]
    /\ UNCHANGED <<inputVars, callVars, modelVars, queueVars, apiVars>>

\* compare() after process_contracts: json_output = result.model_dump_json();
\* write it to --output or echo it; raise typer.Exit(1) when status is error
Cli_compare_Finish ==
    /\ entry = "cli"
    /\ pc = "done"
    /\ pc' = "exited"
    /\ IF outcome = "raised"
       THEN command' = [command EXCEPT !.exited = TRUE, !.exit_code = 1]
       ELSE LET json_output == model_dump_json(ret) IN
            command' =
                [command EXCEPT
                   !.written = IF Truthy(command.output) THEN json_output ELSE @,
                   !.stdout = IF Truthy(command.output)
                              THEN Append(@, [line |-> "Output saved to", v |-> command.output])
                              ELSE @ \o << [line |-> "--- Result ---", v |-> None],
                                           [line |-> "json_output", v |-> json_output] >>,
                   !.exited = TRUE,
                   !.exit_code = IF ret.status = "error" THEN 1 ELSE 0]
    /\ UNCHANGED <<inputVars, callVars, modelVars, queueVars, apiVars>>

-----------------------------------------------------------------------------
(* src/adapters/rabbitmq_consumer.py: process_message around compare *)

ContractJobRequestRequired == {"job_id", "contract_id", "original_image", "amendment_image"}

\* ContractJobRequest.model_validate(body): the four string fields are required
ContractJobRequest_model_validate(body) ==
    IF ContractJobRequestRequired \subseteq DOMAIN body
    THEN Return(body)
    ELSE Raise(Exception("ValidationError", "Field required"))

\* json.loads(message.body.decode()) followed by the request's validation
ParseRequest(body) ==
    LET loaded == json_loads(body) IN
    IF loaded.raised THEN loaded ELSE ContractJobRequest_model_validate(loaded.value)

\* ContractJobResponse built from the request and the envelope
ContractJobResponse(request, result) ==
    [job_id |-> request.job_id,
     contract_id |-> request.contract_id,
     status |-> result.status,
     result |-> IF result.result # None THEN model_dump(result.result) ELSE None,
     error |-> result.error,
     processing_time_ms |-> result.processing_time_ms,
     trace_id |-> result.trace_id]

\* aio_pika.Message(body=response.model_dump_json().encode(), correlation_id=...,
\* content_type="application/json") published with routing_key=message.reply_to
ReplyMessage(response) ==
    [routing_key |-> message.reply_to,
     correlation_id |-> message.correlation_id,
     content_type |-> "application/json",
     body |-> [t |-> "json", v |-> response]]

\* an inbound message, the broker it would be answered through, and what the
\* worker has done with it
NewMessage(body, reply_to, broker) ==
    [body |-> body, reply_to |-> reply_to, correlation_id |-> PyStr("corr-1"),
     broker |-> broker, acked |-> 0, published |-> <<>>, printed |-> <<>>]

\* process_message up to the call of service.compare: parse and validate the
\* body; a malformed body is printed by the except clause and the message is
\* acknowledged on leaving message.process()
ProcessMessage_Receive ==
    /\ entry = "service"
    /\ message # None
    /\ pc = "message"
    /\ LET request == ParseRequest(message.body) IN
       IF request.raised
       THEN /\ message' = [message EXCEPT !.printed = Append(@, request.exc),
                                          !.acked = @ + 1]
            /\ pc' = "acked"
       ELSE /\ pc' = "start"
            /\ UNCHANGED message
    /\ UNCHANGED <<inputVars, callVars, modelVars, cliVars, apiVars, worker>>

\* process_message after service.compare: build the response, publish it when
\* the message names a reply queue, acknowledge; an exception of compare or of
\* the publish is printed by the except clause and the message is acknowledged
ProcessMessage_Reply ==
    /\ entry = "service"
    /\ message # None
    /\ pc = "done"
    /\ pc' = "acked"
    /\ IF outcome = "raised"
       THEN message' = [message EXCEPT !.printed = Append(@, exc), !.acked = @ + 1]
       ELSE LET request == ParseRequest(message.body).value
                response == ContractJobResponse(request, ret) IN
            IF ~Truthy(message.reply_to)
            THEN message' = [message EXCEPT !.acked = @ + 1]
            ELSE IF message.broker = "ok"
            THEN message' = [message EXCEPT !.published = Append(@, ReplyMessage(response)),
                                            !.acked = @ + 1]
            ELSE message' = [message EXCEPT
                               !.printed = Append(@, Exception("AMQPConnectionError",
                                                               "connection refused")),
                               !.acked = @ + 1]
    /\ UNCHANGED <<inputVars, callVars, modelVars, cliVars, apiVars, worker>>

-----------------------------------------------------------------------------
(* Inputs of one call *)

SummaryOfLength(n) == PyStr(Chars(n))

\* the stub extraction of the end-to-end scenario
StubChanges ==
    Instance([sections_changed |-> PyList(<<"2. Terms">>),
              topics_touched |-> PyList(<<"Duration">>),
              summary_of_the_change |-> SummaryOfLength(60)])

\* upstream responses fed to the production extraction agent in the pipeline
PipelineUpstreams ==
    { [kind |-> "content",
       content |-> [t |-> "json", v |-> model_dump(StubChanges)]],
      [kind |-> "content",
       content |-> [t |-> "json",
                    v |-> [summary_of_the_change |-> SummaryOfLength(MinSummaryLength)]]],
      [kind |-> "content",
       content |-> [t |-> "json",
                    v |-> [sections_changed |-> PyList(<<"2. Terms">>),
                           topics_touched |-> PyList(<<"Duration">>)]]],
      [kind |-> "content", content |-> [t |-> "text"]] }
    \cup {[kind |-> "error", cls |-> c] : c \in ApiErrorClasses}

\* values a stub agent (one that does not run the schema checks) may return
StubReturns ==
    { Return(StubChanges),
      Return(Instance([StubChanges.fields EXCEPT !["sections_changed"] = PyList(<<>>)])),
      Return(Instance([StubChanges.fields EXCEPT !["topics_touched"] = PyList(<<>>)])),
      Return(Instance([StubChanges.fields EXCEPT
                          !["summary_of_the_change"] = SummaryOfLength(MinSummaryLength - 1)])),
      Return(Instance([sections_changed |-> PyList(<<"2. Terms">>),
                       summary_of_the_change |-> SummaryOfLength(60)])),
      Raise(Exception("RuntimeError", "extraction failed")) }

ExtractionAgents ==
    {[impl |-> "openai", upstream |-> u] : u \in PipelineUpstreams}
    \cup {[impl |-> "stub", returns |-> r] : r \in StubReturns}

NumReports == Len(BeforeProgress) + Len(AfterProgress) + 1

\* a progress callback raises at its raises_at-th invocation (0: never)
Callbacks == {None} \cup {[raises_at |-> k] : k \in 0..NumReports}

ContractIds == {None, PyStr(""), PyStr("contract-1")}
ParserBehaviours ==
    [original : {"ok", "raise"}, amendment : {"ok", "raise"}]
    \cup {[original |-> c, amendment |-> "ok"] : c \in ApiErrorClasses}
    \cup {[original |-> "ok", amendment |-> c] : c \in ApiErrorClasses}
LangfuseBehaviours == {"ok", "enter", "span", "update", "flush"}

NoLocals == [original_doc |-> None, amendment_doc |-> None, contextualization |-> None,
             changes |-> None, validated_changes |-> None]

\* where a run starts: at the command, at the inbound message, or at the call
EntryPoint ==
    IF entry = "cli" THEN "command"
    ELSE IF message # None THEN "message"
    ELSE "start"

PipelineIdle ==
    /\ pc = EntryPoint
    /\ stage = 0
    /\ contract_id = None
    /\ now = 0
    /\ start_time = 0
    /\ exc = None
    /\ locals = NoLocals
    /\ trace = NoTrace
    /\ log = <<>>
    /\ ret = None
    /\ outcome = "running"

ModelsIdle ==
    /\ m_input = None
    /\ m_result = <<>>
    /\ m_pc = "idle"

\* the HTTP adapter before any request
ApiIdle ==
    /\ jobs_store = <<>>
    /\ requests = <<>>
    /\ http = None

\* the queue worker's consumer before any message was published
WorkerIdle ==
    worker = [ready |-> <<>>, tasks |-> <<>>, running |-> 0]

\* command lines of `compare`
Commands ==
    {NewCommand(o, a, out) : o \in BOOLEAN, a \in BOOLEAN, out \in {None, PyStr("out.json")}}

\* message bodies: a well-formed request, one lacking a required field, and
\* bytes that are not JSON
MessageBodies ==
    { [t |-> "json",
       v |-> [job_id |-> PyStr("job-1"), contract_id |-> PyStr("contract-1"),
              original_image |-> PyStr(OriginalImagePath),
              amendment_image |-> PyStr(AmendmentImagePath)]],
      [t |-> "json",
       v |-> [job_id |-> PyStr("job-1"), contract_id |-> PyStr("contract-1"),
              original_image |-> PyStr(OriginalImagePath)]],
      [t |-> "bytes", v |-> PyStr("{not json")] }

ReplyQueues == {None, PyStr(""), PyStr("replies")}

Messages ==
    {NewMessage(body, reply_to, broker) :
        body \in MessageBodies, reply_to \in ReplyQueues, broker \in {"ok", "down"}}

Init ==
    /\ entry \in {"service", "cli"}
    /\ command \in IF entry = "cli" THEN Commands ELSE {None}
    /\ message \in IF entry = "service" THEN {None} \cup Messages ELSE {None}
    /\ arg_contract_id \in IF message # None THEN {PyStr("contract-1")} ELSE ContractIds
    /\ progress_callback \in IF entry = "service" /\ message = None THEN Callbacks ELSE {None}
    /\ ApiIdle
    /\ WorkerIdle
    /\ parser \in ParserBehaviours
    /\ contextualization_agent \in {"ok", "raise"}
    /\ extraction_agent \in ExtractionAgents
    /\ langfuse \in LangfuseBehaviours
    /\ PipelineIdle
    /\ ModelsIdle

Next ==
    \/ Compare_Enter
    \/ Compare_ReportBefore
    \/ Compare_RunStage
    \/ Compare_ReportAfter
    \/ Compare_Completed
    \/ Compare_Except
    \/ ProcessContracts_Enter
    \/ ProcessContracts_RunStage
    \/ ProcessContracts_Success
    \/ ProcessContracts_ValidationError
    \/ ProcessContracts_Exception
    \/ TracingContext_exit
    \/ Cli_compare_Start
    \/ Cli_compare_Finish
    \/ ProcessMessage_Receive
    \/ ProcessMessage_Reply

Spec == Init /\ [][Next]_vars

-----------------------------------------------------------------------------
(* src/adapters/rest_api.py: POST /compare, the background task, the        *)
(* progress callback and the two polling endpoints over jobs_store          *)

\* datetime.utcnow() read by request r (0: by a poll) at a point of its handling
Stamp(r, at, n) == [t |-> "datetime", r |-> r, at |-> at, n |-> n]

\* d[key] = value on a dict
DictSet(d, key, value) ==
    [f \in DOMAIN d \cup {key} |-> IF f = key THEN value ELSE d[f]]

\* d.update(u)
DictUpdate(d, u) ==
    [f \in DOMAIN d \cup DOMAIN u |-> IF f \in DOMAIN u THEN u[f] ELSE d[f]]

\* a submission that rebinds the store to a dict holding only the new record
StorePut_Rebinds(store, job_id, record) ==
    [k \in {job_id} |-> record]

\* jobs_store[job_id] = record
StorePut(store, job_id, record) ==
    [k \in DOMAIN store \cup {job_id} |-> IF k = job_id THEN record ELSE store[k]]

\* the percentages compare reports, in order
ReportedProgress ==
    [i \in 1..(2 * NumStages) |->
        IF i = 2 * NumStages THEN 100
        ELSE IF i % 2 = 1 THEN BeforeProgress[(i + 1) \div 2]
        ELSE AfterProgress[i \div 2]]

\* the messages compare reports, in order
ProgressMessage ==
    <<"Parsing original contract...", "Original contract parsed successfully",
      "Parsing amendment contract...", "Amendment contract parsed successfully",
      "Contextualizing documents with AI...", "Contextualization complete",
      "Extracting changes with AI...", "Change extraction complete",
      "Validating results...", "Processing complete!">>

\* the dict compare hands to the progress callback at its i-th report
ProgressData(i) ==
    [step |-> IF i = 2 * NumStages THEN "Completed" ELSE StepLabel[(i + 1) \div 2],
     progress |-> ReportedProgress[i],
     message |-> ProgressMessage[i],
     status |-> "processing"]

\* stages at which the comparisons of the adapter's requests may fail
FailingStages == {2}

\* how a compare call of the adapter ends, and after how many progress
\* reports: success after all of them, an error envelope when stage k fails
\* (after the report ahead of it), or an exception out of the call
\* (get_service() cannot build the parser, or compare cannot open the trace
\* scope) before any report
CompareOutcomes ==
    {[ending |-> "success", reports |-> 2 * NumStages]}
        \cup {[ending |-> "error", reports |-> 2 * k - 1] : k \in FailingStages}
        \cup {[ending |-> "raised", reports |-> 0]}

\* the envelope service.compare(..., contract_id=job_id) returns
CompareResult(job_id, ending) ==
    WithProcessingTime(
        IF ending.ending = "success"
        THEN ProcessingResult(job_id, "success", StubChanges, None, PyStr("trace-1"))
        ELSE ProcessingResult(job_id, "error", None,
                              PyStr(SpanName[(ending.reports + 1) \div 2] \o " failed"),
                              PyStr("trace-1")),
        1)

\* job_id = request.contract_id or str(uuid.uuid4()), for the r-th request
JobIdOf(cid, r) == PyOr(cid, PyStr("uuid4-" \o ToString(r)))

\* the r-th POST /compare request as its handler starts on it: the body's
\* contract_id and async_mode, and how its comparison is going to end
NewRequest(cid, async_mode, ending, r, at) ==
    [contract_id |-> cid, async_mode |-> async_mode, outcome |-> ending,
     pc |-> at, job_id |-> JobIdOf(cid, r), reports |-> 0, result |-> None]

CompareResponse(job_id, status, result, error, processing_time_ms, trace_id, msg) ==
    [job_id |-> job_id, status |-> status, result |-> result, error |-> error,
     processing_time_ms |-> processing_time_ms, trace_id |-> trace_id, message |-> msg]

Response(endpoint, r, job_id, code, body) ==
    [endpoint |-> endpoint, r |-> r, job_id |-> job_id, code |-> code, body |-> body]

NotFound == [detail |-> "Job not found"]

\* compare_contracts, async mode: pending record, background task, "queued"
compare_contracts_Async(cid, ending) ==
    /\ entry = "http"
    /\ Len(requests) < MaxRequests
    /\ LET r == Len(requests) + 1
           job_id == JobIdOf(cid, r) IN
       /\ jobs_store' = StorePut(jobs_store, job_id,
                                 [status |-> "pending", result |-> None, error |-> None,
                                  created_at |-> Stamp(r, "created", 0),
                                  completed_at |-> None])
       /\ requests' = Append(requests, NewRequest(cid, TRUE, ending, r, "queued"))
       /\ http' = Response("compare", r, job_id, 200,
                           CompareResponse(job_id, "queued", None, None, None, None,
                                           PyStr("Job queued for processing")))
    /\ UNCHANGED <<pipeVars, modelVars, cliVars, queueVars>>

\* compare_contracts, sync mode, up to run_in_executor: the record with
\* status "processing" and progress 0
compare_contracts_Sync_Start(cid, ending) ==
    /\ entry = "http"
    /\ Len(requests) < MaxRequests
    /\ LET r == Len(requests) + 1
           job_id == JobIdOf(cid, r) IN
       /\ jobs_store' = StorePut(jobs_store, job_id,
                                 [status |-> "processing", result |-> None, error |-> None,
                                  created_at |-> Stamp(r, "created", 0),
                                  completed_at |-> None,
                                  progress |-> [progress |-> 0, step |-> "Starting",
                                                message |-> "Initializing processing",
                                                updated_at |-> Stamp(r, "created", 0)]])
       /\ requests' = Append(requests, NewRequest(cid, FALSE, ending, r, "running"))
       /\ http' = None
    /\ UNCHANGED <<pipeVars, modelVars, cliVars, queueVars>>

\* a callback that updates the stored sub-record in place, field by field,
\* and is overtaken before it has written the message
progress_callback_Write_InPlace(r) ==
    /\ entry = "http"
    /\ r \in 1..Len(requests)
    /\ requests[r].pc = "running"
    /\ ~requests[r].async_mode
    /\ requests[r].reports < requests[r].outcome.reports
    /\ LET i == requests[r].reports + 1
           job_id == requests[r].job_id IN
       /\ jobs_store' =
              [jobs_store EXCEPT
                 ![job_id].progress =
                     DictUpdate(@, [step |-> ProgressData(i).step,
                                    progress |-> ProgressData(i).progress,
                                    updated_at |-> Stamp(r, "progress", i)])]
       /\ requests' = [requests EXCEPT ![r].reports = i]
       /\ http' = None
    /\ UNCHANGED <<pipeVars, modelVars, cliVars, queueVars>>

\* progress_callback(progress_data), called by compare from the executor thread
progress_callback_Write(r) ==
    /\ entry = "http"
    /\ r \in 1..Len(requests)
    /\ requests[r].pc = "running"
    /\ ~requests[r].async_mode
    /\ requests[r].reports < requests[r].outcome.reports
    /\ LET i == requests[r].reports + 1
           job_id == requests[r].job_id IN
       /\ jobs_store' =
              [jobs_store EXCEPT
                 ![job_id] = DictSet(@, "progress",
                                     DictSet(ProgressData(i), "updated_at",
                                             Stamp(r, "progress", i)))]
       /\ requests' = [requests EXCEPT ![r].reports = i]
       /\ http' = None
    /\ UNCHANGED <<pipeVars, modelVars, cliVars, queueVars>>

\* compare_contracts that answers an error envelope with a 500
compare_contracts_Sync_Finish_ErrorAs500(r) ==
    /\ entry = "http"
    /\ r \in 1..Len(requests)
    /\ requests[r].pc = "running"
    /\ ~requests[r].async_mode
    /\ requests[r].reports = requests[r].outcome.reports
    /\ LET job_id == requests[r].job_id
           result == CompareResult(job_id, requests[r].outcome) IN
       IF requests[r].outcome.ending = "raised"
       THEN /\ requests' = [requests EXCEPT ![r].pc = "failed"]
            /\ http' = Response("compare", r, job_id, 500, [detail |-> "Internal Server Error"])
            /\ UNCHANGED jobs_store
       ELSE /\ jobs_store' =
                   [jobs_store EXCEPT
                      ![job_id] = DictUpdate(@, [status |-> result.status,
                                                 result |-> result.result,
                                                 error |-> result.error,
                                                 completed_at |-> Stamp(r, "completed", 0),
                                                 trace_id |-> result.trace_id,
                                                 processing_time_ms |-> result.processing_time_ms])]
            /\ requests' = [requests EXCEPT ![r].pc = "done", ![r].result = result]
            /\ http' = IF result.status = "error"
                       THEN Response("compare", r, job_id, 500, [detail |-> result.error])
                       ELSE Response("compare", r, job_id, 200,
                                     CompareResponse(job_id, result.status, result.result,
                                                     result.error, result.processing_time_ms,
                                                     result.trace_id, None))
    /\ UNCHANGED <<pipeVars, modelVars, cliVars, queueVars>>

\* compare_contracts, sync mode, after run_in_executor: update the record with
\* the envelope and answer with its fields; an exception of compare leaves the
\* handler (500) with the record untouched
compare_contracts_Sync_Finish(r) ==
    /\ entry = "http"
    /\ r \in 1..Len(requests)
    /\ requests[r].pc = "running"
    /\ ~requests[r].async_mode
    /\ requests[r].reports = requests[r].outcome.reports
    /\ LET job_id == requests[r].job_id
           result == CompareResult(job_id, requests[r].outcome) IN
       IF requests[r].outcome.ending = "raised"
       THEN /\ requests' = [requests EXCEPT ![r].pc = "failed"]
            /\ http' = Response("compare", r, job_id, 500, [detail |-> "Internal Server Error"])
            /\ UNCHANGED jobs_store
       ELSE /\ jobs_store' =
                   [jobs_store EXCEPT
                      ![job_id] = DictUpdate(@, [status |-> result.status,
                                                 result |-> result.result,
                                                 error |-> result.error,
                                                 completed_at |-> Stamp(r, "completed", 0),
                                                 trace_id |-> result.trace_id,
                                                 processing_time_ms |-> result.processing_time_ms])]
            /\ requests' = [requests EXCEPT ![r].pc = "done", ![r].result = result]
            /\ http' = Response("compare", r, job_id, 200,
                                CompareResponse(job_id, result.status, result.result,
                                                result.error, result.processing_time_ms,
                                                result.trace_id, None))
    /\ UNCHANGED <<pipeVars, modelVars, cliVars, queueVars>>

\* the background task is started after the response: get_service() and the
\* call of service.compare (no progress callback)
process_comparison_async_Start(r) ==
    /\ entry = "http"
    /\ r \in 1..Len(requests)
    /\ requests[r].pc = "queued"
    /\ requests' = [requests EXCEPT ![r].pc = "running"]
    /\ http' = None
    /\ UNCHANGED jobs_store
    /\ UNCHANGED <<pipeVars, modelVars, cliVars, queueVars>>

\* process_comparison_async that drops the record of a failed job
process_comparison_async_Finish_DropsFailed(r) ==
    /\ entry = "http"
    /\ r \in 1..Len(requests)
    /\ requests[r].pc = "running"
    /\ requests[r].async_mode
    /\ LET job_id == requests[r].job_id
           result == CompareResult(job_id, requests[r].outcome) IN
       IF requests[r].outcome.ending = "raised"
       THEN /\ requests' = [requests EXCEPT ![r].pc = "failed"]
            /\ UNCHANGED jobs_store
       ELSE IF result.status = "error"
       THEN /\ jobs_store' = [k \in DOMAIN jobs_store \ {job_id} |-> jobs_store[k]]
            /\ requests' = [requests EXCEPT ![r].pc = "done", ![r].result = result]
       ELSE /\ jobs_store' = StorePut(jobs_store, job_id,
                                      [status |-> result.status,
                                       result |-> result.result,
                                       error |-> result.error,
                                       completed_at |-> Stamp(r, "completed", 0),
                                       trace_id |-> result.trace_id,
                                       processing_time_ms |-> result.processing_time_ms])
            /\ requests' = [requests EXCEPT ![r].pc = "done", ![r].result = result]
    /\ http' = None
    /\ UNCHANGED <<pipeVars, modelVars, cliVars, queueVars>>

\* process_comparison_async after service.compare returned: the job's record
\* is replaced by one built from the envelope; an exception of compare ends
\* the task with the record untouched
process_comparison_async_Finish(r) ==
    /\ entry = "http"
    /\ r \in 1..Len(requests)
    /\ requests[r].pc = "running"
    /\ requests[r].async_mode
    /\ LET job_id == requests[r].job_id
           result == CompareResult(job_id, requests[r].outcome) IN
       IF requests[r].outcome.ending = "raised"
       THEN /\ requests' = [requests EXCEPT ![r].pc = "failed"]
            /\ UNCHANGED jobs_store
       ELSE /\ jobs_store' = StorePut(jobs_store, job_id,
                                      [status |-> result.status,
                                       result |-> result.result,
                                       error |-> result.error,
                                       completed_at |-> Stamp(r, "completed", 0),
                                       trace_id |-> result.trace_id,
                                       processing_time_ms |-> result.processing_time_ms])
            /\ requests' = [requests EXCEPT ![r].pc = "done", ![r].result = result]
    /\ http' = None
    /\ UNCHANGED <<pipeVars, modelVars, cliVars, queueVars>>

\* get_job_status(job_id): the response computed from the store
JobStatusResponse(job_id) ==
    IF job_id \notin DOMAIN jobs_store
    THEN Response("status", 0, job_id, 404, NotFound)
    ELSE LET job == jobs_store[job_id] IN
         Response("status", 0, job_id, 200,
                  [job_id |-> job_id,
                   status |-> job["status"],
                   result |-> dict_get(job, "result", None),
                   error |-> dict_get(job, "error", None),
                   created_at |-> dict_get(job, "created_at", None),
                   completed_at |-> dict_get(job, "completed_at", None)])

\* get_job_progress(job_id): the response computed from the store
ProgressResponse(job_id) ==
    IF job_id \notin DOMAIN jobs_store
    THEN Response("progress", 0, job_id, 404, NotFound)
    ELSE LET job == jobs_store[job_id]
             progress_data == dict_get(job, "progress", [x \in {} |-> None]) IN
         Response("progress", 0, job_id, 200,
                  [job_id |-> job_id,
                   status |-> job["status"],
                   progress |-> dict_get(progress_data, "progress", 0),
                   step |-> dict_get(progress_data, "step", "Initializing"),
                   message |-> dict_get(progress_data, "message", "Starting processing"),
                   updated_at |-> dict_get(progress_data, "updated_at", Stamp(0, "poll", 0))])

\* GET /api/v1/jobs/{job_id}
get_job_status(job_id) ==
    /\ entry = "http"
    /\ http' = JobStatusResponse(job_id)
    /\ UNCHANGED <<jobs_store, requests>>
    /\ UNCHANGED <<pipeVars, modelVars, cliVars, queueVars>>

\* GET /api/v1/jobs/{job_id}/progress
get_job_progress(job_id) ==
    /\ entry = "http"
    /\ http' = ProgressResponse(job_id)
    /\ UNCHANGED <<jobs_store, requests>>
    /\ UNCHANGED <<pipeVars, modelVars, cliVars, queueVars>>

\* ids the polling endpoints are asked about
PollIds == {PyStr("job-1")}

\* contract_id of a request body: absent, or chosen by the caller
RequestContractIds == {None, PyStr("job-1")}

InitApi ==
    /\ entry = "http"
    /\ arg_contract_id = None
    /\ progress_callback = None
    /\ parser = [original |-> "ok", amendment |-> "ok"]
    /\ contextualization_agent = "ok"
    /\ extraction_agent = [impl |-> "stub", returns |-> Return(StubChanges)]
    /\ langfuse = "ok"
    /\ command = None
    /\ message = None
    /\ WorkerIdle
    /\ PipelineIdle
    /\ ModelsIdle
    /\ jobs_store = <<>>
    /\ requests = <<>>
    /\ http = None

NextApi ==
    \/ \E cid \in RequestContractIds, ending \in CompareOutcomes :
           compare_contracts_Async(cid, ending)
    \/ \E cid \in RequestContractIds, ending \in CompareOutcomes :
           compare_contracts_Sync_Start(cid, ending)
    \/ \E r \in 1..MaxRequests : progress_callback_Write(r)
    \/ \E r \in 1..MaxRequests : compare_contracts_Sync_Finish(r)
    \/ \E r \in 1..MaxRequests : process_comparison_async_Start(r)
    \/ \E r \in 1..MaxRequests : process_comparison_async_Finish(r)
    \/ \E job_id \in PollIds : get_job_status(job_id)
    \/ \E job_id \in PollIds : get_job_progress(job_id)

SpecApi == InitApi /\ [][NextApi]_vars

\* the adapter with its tasks scheduled: FastAPI runs every background task
\* it was given after the response is sent, and a handler or task that has
\* started runs on, every collaborator call in it returning or raising
FairApi ==
    \A r \in 1..MaxRequests :
        /\ WF_vars(process_comparison_async_Start(r))
        /\ WF_vars(process_comparison_async_Finish(r))
        /\ WF_vars(progress_callback_Write(r))
        /\ WF_vars(compare_contracts_Sync_Finish(r))

SpecApiFair == InitApi /\ [][NextApi]_vars /\ FairApi

-----------------------------------------------------------------------------
(* src/adapters/rabbitmq_consumer.py: start_consumer, the consumer loop     *)
(* that hands the queue's messages to process_message on one event loop     *)

\* messages published to the queue over a run
MaxMessages == 2

\* channel.set_qos(prefetch_count=1): the broker holds back further
\* deliveries while this many are unacknowledged
PrefetchCount == 1

\* the task the consumer creates for a delivered message
NewTask(m) ==
    [body |-> m.body, reply_to |-> m.reply_to, correlation_id |-> m.correlation_id,
     pc |-> "scheduled", result |-> None, published |-> <<>>, printed |-> <<>>]

\* the delivered messages not yet acknowledged
Unacked == {t \in 1..Len(worker.tasks) : worker.tasks[t].pc # "acked"}

\* a producer publishes a message to the durable queue
Broker_Publish(body, reply_to) ==
    /\ entry = "worker"
    /\ Len(worker.ready) + Len(worker.tasks) < MaxMessages
    /\ worker' = [worker EXCEPT
                    !.ready = Append(@, [body |-> body, reply_to |-> reply_to,
                                         correlation_id |->
                                             PyStr("corr-" \o ToString(Len(worker.ready)
                                                       + Len(worker.tasks) + 1))])]
    /\ UNCHANGED <<pipeVars, modelVars, cliVars, apiVars, message>>

\* a consumer that never set a prefetch limit: every ready message is delivered
start_consumer_Deliver_NoQos ==
    /\ entry = "worker"
    /\ worker.ready # <<>>
    /\ worker' = [worker EXCEPT !.ready = Tail(@),
                                !.tasks = Append(@, NewTask(Head(worker.ready)))]
    /\ UNCHANGED <<pipeVars, modelVars, cliVars, apiVars, message>>

\* queue.consume(process_message): the broker delivers the next ready message
\* while fewer than prefetch_count deliveries are unacknowledged, and the
\* consumer schedules process_message(message) on the event loop
start_consumer_Deliver ==
    /\ entry = "worker"
    /\ worker.ready # <<>>
    /\ Cardinality(Unacked) < PrefetchCount
    /\ worker' = [worker EXCEPT !.ready = Tail(@),
                                !.tasks = Append(@, NewTask(Head(worker.ready)))]
    /\ UNCHANGED <<pipeVars, modelVars, cliVars, apiVars, message>>

\* process_message from its start to the call of service.compare, which runs
\* on the event loop's own thread: no other task runs until it returns. A
\* malformed body is printed by the except clause and the task goes on to
\* leave message.process()
process_message_Begin(t) ==
    /\ entry = "worker"
    /\ t \in 1..Len(worker.tasks)
    /\ worker.running = 0
    /\ worker.tasks[t].pc = "scheduled"
    /\ LET request == ParseRequest(worker.tasks[t].body) IN
       IF request.raised
       THEN worker' = [worker EXCEPT !.tasks[t].printed = Append(@, request.exc),
                                     !.tasks[t].pc = "acking"]
       ELSE worker' = [worker EXCEPT !.tasks[t].pc = "comparing", !.running = t]
    /\ UNCHANGED <<pipeVars, modelVars, cliVars, apiVars, message>>

\* service.compare returns (or raises) and process_message runs on to its next
\* await: connect_robust when the message names a reply queue, otherwise the
\* acknowledgement on leaving message.process()
process_message_Compared(t, ending) ==
    /\ entry = "worker"
    /\ t \in 1..Len(worker.tasks)
    /\ worker.running = t
    /\ worker.tasks[t].pc = "comparing"
    /\ LET request == ParseRequest(worker.tasks[t].body).value
           result == CompareResult(request.contract_id, ending) IN
       IF ending.ending = "raised"
       THEN worker' = [worker EXCEPT
                         !.tasks[t].printed =
                             Append(@, Exception("Exception", "langfuse unavailable")),
                         !.tasks[t].pc = "acking",
                         !.running = 0]
       ELSE worker' = [worker EXCEPT
                         !.tasks[t].result = result,
                         !.tasks[t].pc = IF Truthy(worker.tasks[t].reply_to)
                                         THEN "replying" ELSE "acking",
                         !.running = 0]
    /\ UNCHANGED <<pipeVars, modelVars, cliVars, apiVars, message>>

\* the reply: connect, open a channel, publish the response with the
\* message's correlation_id to its reply queue; a broker that cannot be
\* reached raises, which the except clause prints
process_message_Publish(t, broker) ==
    /\ entry = "worker"
    /\ t \in 1..Len(worker.tasks)
    /\ worker.running = 0
    /\ worker.tasks[t].pc = "replying"
    /\ LET task == worker.tasks[t]
           request == ParseRequest(task.body).value
           reply == [routing_key |-> task.reply_to,
                     correlation_id |-> task.correlation_id,
                     content_type |-> "application/json",
                     body |-> [t |-> "json",
                               v |-> ContractJobResponse(request, task.result)]] IN
       IF broker = "ok"
       THEN worker' = [worker EXCEPT !.tasks[t].published = Append(@, reply),
                                     !.tasks[t].pc = "acking"]
       ELSE worker' = [worker EXCEPT
                         !.tasks[t].printed =
                             Append(@, Exception("AMQPConnectionError", "connection refused")),
                         !.tasks[t].pc = "acking"]
    /\ UNCHANGED <<pipeVars, modelVars, cliVars, apiVars, message>>

\* leaving message.process() with a negative acknowledgement that requeues
\* the message when the except clause printed an error
process_message_Ack_RequeuesFailed(t) ==
    /\ entry = "worker"
    /\ t \in 1..Len(worker.tasks)
    /\ worker.running = 0
    /\ worker.tasks[t].pc = "acking"
    /\ IF worker.tasks[t].printed # <<>>
       THEN worker' = [worker EXCEPT
                         !.tasks[t].pc = "acked",
                         !.ready = Append(@, [body |-> worker.tasks[t].body,
                                              reply_to |-> worker.tasks[t].reply_to,
                                              correlation_id |->
                                                  worker.tasks[t].correlation_id])]
       ELSE worker' = [worker EXCEPT !.tasks[t].pc = "acked"]
    /\ UNCHANGED <<pipeVars, modelVars, cliVars, apiVars, message>>

\* leaving `async with message.process()`: the message is acknowledged
process_message_Ack(t) ==
    /\ entry = "worker"
    /\ t \in 1..Len(worker.tasks)
    /\ worker.running = 0
    /\ worker.tasks[t].pc = "acking"
    /\ worker' = [worker EXCEPT !.tasks[t].pc = "acked"]
    /\ UNCHANGED <<pipeVars, modelVars, cliVars, apiVars, message>>

\* reply queues named by the messages of the queue
WorkerReplyQueues == {None, PyStr("replies")}

InitWorker ==
    /\ entry = "worker"
    /\ arg_contract_id = None
    /\ progress_callback = None
    /\ parser = [original |-> "ok", amendment |-> "ok"]
    /\ contextualization_agent = "ok"
    /\ extraction_agent = [impl |-> "stub", returns |-> Return(StubChanges)]
    /\ langfuse = "ok"
    /\ command = None
    /\ message = None
    /\ WorkerIdle
    /\ ApiIdle
    /\ PipelineIdle
    /\ ModelsIdle

NextWorker ==
    \/ \E body \in MessageBodies, reply_to \in WorkerReplyQueues :
           Broker_Publish(body, reply_to)
    \/ start_consumer_Deliver
    \/ \E t \in 1..MaxMessages : process_message_Begin(t)
    \/ \E t \in 1..MaxMessages, ending \in CompareOutcomes :
           process_message_Compared(t, ending)
    \/ \E t \in 1..MaxMessages, broker \in {"ok", "down"} : process_message_Publish(t, broker)
    \/ \E t \in 1..MaxMessages : process_message_Ack(t)

SpecWorker == InitWorker /\ [][NextWorker]_vars

\* the consumer's event loop runs every task it scheduled, each await in
\* process_message returning or raising, and the broker delivers while the
\* prefetch window is open
FairWorker ==
    /\ WF_vars(start_consumer_Deliver)
    /\ \A t \in 1..MaxMessages :
           /\ WF_vars(process_message_Begin(t))
           /\ WF_vars(\E ending \in CompareOutcomes : process_message_Compared(t, ending))
           /\ WF_vars(\E broker \in {"ok", "down"} : process_message_Publish(t, broker))
           /\ WF_vars(process_message_Ack(t))

SpecWorkerFair == InitWorker /\ [][NextWorker]_vars /\ FairWorker

-----------------------------------------------------------------------------
(* The value types on their own: validation, the extraction stage's         *)
(* handling of a payload, and the validation step, applied to enumerated    *)
(* inputs.                                                                  *)

SectionNames == {"2. Terms", "Section 1"}
TopicNames == {"Duration", "Payment Terms"}
SummaryLengths == {0, 9, MinSummaryLength - 1, MinSummaryLength, MinSummaryLength + 10}

ListsOver(S) == UNION {[1..n -> S] : n \in 0..MaxListLen}

\* values a field may hold in a payload: well-typed ones and mistyped ones
ValuesFor(f) ==
    CASE f = "sections_changed" ->
             {PyList(l) : l \in ListsOver(SectionNames)} \cup {None, PyStr("2. Terms")}
      [] f = "topics_touched" ->
             {PyList(l) : l \in ListsOver(TopicNames)} \cup {None, PyStr("Duration")}
      [] f = "summary_of_the_change" ->
             {SummaryOfLength(n) : n \in SummaryLengths} \cup {None, PyList(<<"2. Terms">>)}

AllValues == UNION {ValuesFor(f) : f \in FieldSet}

\* dicts over any subset of the three keys
Dicts ==
    UNION { {d \in [K -> AllValues] : \A f \in K : d[f] \in ValuesFor(f)} :
            K \in SUBSET FieldSet }

ModelUpstreams ==
    {[kind |-> "content", content |-> [t |-> "json", v |-> d]] : d \in Dicts}
    \cup {[kind |-> "content", content |-> [t |-> "text"]]}
    \cup {[kind |-> "error", cls |-> c] :
             c \in {"RateLimitError", "APITimeoutError", "APIConnectionError",
                    "APIError", "KeyError"}}

\* records of a payload's corresponding_sections: as the legacy prompt asks
\* for them, as the LangChain schema asks for them, with a status outside the
\* four named ones, and with fields missing
Mappings ==
    { [original_section |-> PyStr("3. Payment"),
       amendment_section |-> PyStr("3. Payment Terms"),
       relationship |-> PyStr("modified")],
      [original_section |-> PyStr("3. Payment"),
       amendment_section |-> PyStr("3. Payment Terms"),
       status |-> PyStr("added")],
      [original_section |-> PyStr("3. Payment"),
       amendment_section |-> PyStr("3. Payment Terms"),
       status |-> PyStr("renamed")],
      [original_section |-> PyStr("3. Payment")] }

\* payloads of the contextualization upstream: each key present or absent
ContextualizationPayloads ==
    LET sections == {PyList(l) : l \in ListsOver(Mappings)} \cup {None}
        notes == {PyStr("Payment section was renamed and modified."), None}
        both == {[corresponding_sections |-> s, analysis_notes |-> n] :
                     s \in sections, n \in notes} IN
    both
    \cup {[corresponding_sections |-> d.corresponding_sections] : d \in both}
    \cup {[analysis_notes |-> d.analysis_notes] : d \in both}
    \cup {<<>>}

\* upstream responses of the contextualization stage
ContextualizationUpstreams ==
    {[kind |-> "error", cls |-> c] : c \in {"RateLimitError", "KeyError"}}
    \cup {[kind |-> "content", content |-> [t |-> "text"]]}
    \cup {[kind |-> "content", content |-> [t |-> "json", v |-> PyList(<<>>)]]}
    \cup {[kind |-> "content", content |-> [t |-> "json", v |-> p]] :
              p \in ContextualizationPayloads}

\* one run of a contextualization agent: which agent, its upstream response,
\* and the two parsed documents
ContextualizationInputs ==
    {[kind |-> "contextualization",
      v |-> [agent |-> a, upstream |-> u,
             original_doc |-> MockDocument("original"),
             amendment_doc |-> MockDocument("amendment")]] :
         a \in {"langchain", "legacy"}, u \in ContextualizationUpstreams}

\* what an image path may refer to: nothing, or a file with a supported or
\* unsupported suffix at, below or above the size limit
Images ==
    {[exists |-> FALSE, suffix |-> ".png", st_size |-> 0]}
    \cup {[exists |-> TRUE, suffix |-> s, st_size |-> n] :
              s \in {".png", ".JPG", ".bmp", ""},
              n \in {MegaByte, MAX_IMAGE_SIZE_MB * MegaByte, MAX_IMAGE_SIZE_MB * MegaByte + 1}}

\* payloads of the vision upstream: each key absent, empty, too short,
\* well-formed or mistyped
DocumentPayloads ==
    LET titles == {PyStr(""), PyStr("Employment Agreement"), None}
        sections == {PyList(<<>>), PyList(<<"1. Parties", "2. Terms">>), None,
                     PyStr("1. Parties")}
        texts == {PyStr(""), PyStr(Chars(9)), PyStr(Chars(10)), None}
        all == {[title |-> t, sections |-> s, full_text |-> x] :
                    t \in titles, s \in sections, x \in texts} IN
    all
    \cup {[sections |-> d.sections, full_text |-> d.full_text] : d \in all}
    \cup {[title |-> d.title, full_text |-> d.full_text] : d \in all}
    \cup {[title |-> d.title, sections |-> d.sections] : d \in all}

\* upstream responses of the parsing stage
ParserUpstreams ==
    {[kind |-> "error", cls |-> c] : c \in {"APITimeoutError", "KeyError"}}
    \cup {[kind |-> "content", content |-> [t |-> "text"]]}
    \cup {[kind |-> "content", content |-> [t |-> "json", v |-> p]] : p \in DocumentPayloads}

\* one parse: which parser, the image, the requested type, the upstream response
ParseInputs ==
    {[kind |-> "parse",
      v |-> [parser |-> p, image |-> i, document_type |-> d, upstream |-> u]] :
         p \in {"openai", "legacy", "mock"}, i \in Images,
         d \in {"original", "amendment"}, u \in ParserUpstreams}

\* dicts given to ProcessingResult.model_validate: every combination of a
\* status, a result and an error, with and without the optional keys
EnvelopeDicts ==
    LET statuses == {PyStr("success"), PyStr("error"), PyStr("pending")}
        results == {None, model_dump(StubChanges),
                    [sections_changed |-> PyList(<<>>),
                     topics_touched |-> PyList(<<"Terms">>),
                     summary_of_the_change |-> SummaryOfLength(MinSummaryLength)]}
        errors == {None, PyStr("Failed to parse image")}
        all == {[contract_id |-> PyStr("test-123"), status |-> s, result |-> r,
                 error |-> x, trace_id |-> PyStr("trace-456")] :
                    s \in statuses, r \in results, x \in errors} IN
    all
    \cup {[contract_id |-> d.contract_id, status |-> d.status, result |-> d.result,
           error |-> d.error] : d \in all}
    \cup {[contract_id |-> d.contract_id, status |-> d.status] : d \in all}
    \cup {[status |-> d.status, result |-> d.result, error |-> d.error] : d \in all}

EnvelopeInputs == {[kind |-> "envelope", v |-> d] : d \in EnvelopeDicts}

\* one stage call with or without a trace: a parse of an image (present or
\* missing) or an extraction, and the upstream response
TracedInputs ==
    LET upstreams ==
            {[kind |-> "error", cls |-> c] :
                 c \in {"RateLimitError", "APITimeoutError", "APIConnectionError",
                        "APIError"}}
            \cup {[kind |-> "content", content |-> [t |-> "text"]]}
            \cup {[kind |-> "content",
                   content |-> [t |-> "json",
                                v |-> [title |-> PyStr("Service Agreement"),
                                       sections |-> PyList(<<"1. Scope">>),
                                       full_text |-> PyStr("0123456789")]]]}
        images == {i \in Images : i.suffix = ".png" /\ i.st_size <= MegaByte} IN
    {[kind |-> "traced",
      v |-> [stage |-> "parse", image |-> i, document_type |-> d, upstream |-> u,
             traced |-> t]] :
         i \in images, d \in {"original", "amendment"}, u \in upstreams, t \in BOOLEAN}
    \cup {[kind |-> "traced", v |-> [stage |-> "extraction", upstream |-> u, traced |-> t]] :
              u \in upstreams, t \in BOOLEAN}

ModelInputs ==
    {[kind |-> "dict", v |-> d] : d \in Dicts}
    \cup {[kind |-> "upstream", v |-> u] : u \in ModelUpstreams}
    \cup {[kind |-> "instance", v |-> Instance(d)] : d \in {x \in Dicts : DOMAIN x = FieldSet}}
    \cup ContextualizationInputs
    \cup ParseInputs
    \cup EnvelopeInputs
    \cup TracedInputs

\* ContractChangeResult.model_validate(data)
ModelValidate ==
    /\ m_pc = "input"
    /\ m_input.kind = "dict"
    /\ m_result' = <<ContractChangeResult_model_validate(m_input.v)>>
    /\ m_pc' = "validated"
    /\ UNCHANGED m_input
    /\ UNCHANGED <<pipeVars, adapterVars>>

\* OpenAIExtractionAgent.run on an upstream response
ExtractionAgentRun ==
    /\ m_pc = "input"
    /\ m_input.kind = "upstream"
    /\ m_result' = <<OpenAIExtractionAgent_run(m_input.v)>>
    /\ m_pc' = "extracted"
    /\ UNCHANGED m_input
    /\ UNCHANGED <<pipeVars, adapterVars>>

\* the contextualization stage on an upstream response
ContextualizationAgentRun ==
    /\ m_pc = "input"
    /\ m_input.kind = "contextualization"
    /\ m_result' =
           << IF m_input.v.agent = "langchain"
              THEN LangChainContextualizationAgent_run(
                       m_input.v.upstream, m_input.v.original_doc, m_input.v.amendment_doc)
              ELSE run_contextualization_agent(
                       m_input.v.upstream, m_input.v.original_doc, m_input.v.amendment_doc) >>
    /\ m_pc' = "contextualized"
    /\ UNCHANGED m_input
    /\ UNCHANGED <<pipeVars, adapterVars>>

\* the parsing stage on an image and an upstream response
ParserParse ==
    /\ m_pc = "input"
    /\ m_input.kind = "parse"
    /\ LET i == m_input.v IN
       m_result' =
           << CASE i.parser = "openai" ->
                       OpenAIVisionParser_parse(i.image, i.document_type, i.upstream)
                [] i.parser = "legacy" ->
                       parse_contract_image(i.image, i.document_type, i.upstream)
                [] OTHER -> MockParser_parse(i.image, i.document_type, i.upstream) >>
    /\ m_pc' = "parsed"
    /\ UNCHANGED m_input
    /\ UNCHANGED <<pipeVars, adapterVars>>

\* a parsing or extraction stage called with trace (or with None)
TracedStageCall ==
    /\ m_pc = "input"
    /\ m_input.kind = "traced"
    /\ LET i == m_input.v IN
       m_result' =
           << IF i.stage = "parse"
              THEN [outcome |->
                        OpenAIVisionParser_parse(i.image, i.document_type, i.upstream).outcome,
                    generations |->
                        OpenAIVisionParser_parse_generation(
                            i.image, i.document_type, i.upstream, i.traced)]
              ELSE [outcome |-> OpenAIExtractionAgent_run(i.upstream),
                    generations |-> OpenAIExtractionAgent_run_generation(i.upstream, i.traced)] >>
    /\ m_pc' = "traced"
    /\ UNCHANGED m_input
    /\ UNCHANGED <<pipeVars, adapterVars>>

\* ProcessingResult.model_validate(data)
ProcessingResultValidate ==
    /\ m_pc = "input"
    /\ m_input.kind = "envelope"
    /\ m_result' = <<ProcessingResult_model_validate(m_input.v)>>
    /\ m_pc' = "envelope"
    /\ UNCHANGED m_input
    /\ UNCHANGED <<pipeVars, adapterVars>>

\* the value the validation step is applied to next (None: nothing to apply it to)
Current ==
    IF m_result = <<>>
    THEN IF m_input.kind = "instance" THEN Return(m_input.v) ELSE None
    ELSE m_result[Len(m_result)]

\* the validation step: ContractChangeResult.model_validate(changes.model_dump())
Revalidate ==
    /\ m_pc \in {"input", "validated", "extracted", "revalidated"}
    /\ Current # None
    /\ ~Current.raised
    /\ Len(m_result) < MaxRevalidations + 1
    /\ m_result' = Append(m_result,
                          ContractChangeResult_model_validate(model_dump(Current.value)))
    /\ m_pc' = "revalidated"
    /\ UNCHANGED m_input
    /\ UNCHANGED <<pipeVars, adapterVars>>

InitModels ==
    /\ entry = "models"
    /\ arg_contract_id = None
    /\ progress_callback = None
    /\ parser = [original |-> "ok", amendment |-> "ok"]
    /\ contextualization_agent = "ok"
    /\ extraction_agent = [impl |-> "stub", returns |-> Return(StubChanges)]
    /\ langfuse = "ok"
    /\ command = None
    /\ message = None
    /\ WorkerIdle
    /\ ApiIdle
    /\ PipelineIdle
    /\ m_input \in ModelInputs
    /\ m_result = <<>>
    /\ m_pc = "input"

NextModels ==
    \/ ModelValidate
    \/ ExtractionAgentRun
    \/ Revalidate
    \/ ContextualizationAgentRun
    \/ ParserParse
    \/ ProcessingResultValidate
    \/ TracedStageCall

SpecModels == InitModels /\ [][NextModels]_vars

-----------------------------------------------------------------------------
(* Properties *)

Returned == outcome = "returned"

CallEvents(l) == SelectSeq(l, LAMBDA e : e.ev = "call")
CallId(e) == IF e.fn = "parser.parse" THEN "parser.parse:" \o e.args[2] ELSE e.fn
CallIds == [i \in 1..Len(CallEvents(log)) |-> CallId(CallEvents(log)[i])]
StageOrder == <<"parser.parse:original", "parser.parse:amendment",
                "contextualization_agent.run", "extraction_agent.run">>
IsPrefix(s, t) == Len(s) <= Len(t) /\ \A i \in 1..Len(s) : s[i] = t[i]

\* positions of the log at which a stage's span was left by an exception
FailedSpans == {i \in 1..Len(log) : log[i].ev = "span_close" /\ log[i].error # None}

\* would all five stages succeed on this call's collaborators?
AllStagesSucceed ==
    LET p1 == parser_parse(parser, OriginalImagePath, "original")
        p2 == parser_parse(parser, AmendmentImagePath, "amendment")
        c == contextualization_run(contextualization_agent, p1.value, p2.value)
        x == extraction_run(extraction_agent, c.value)
    IN /\ langfuse # "span"
       /\ ~p1.raised
       /\ ~p2.raised
       /\ ~c.raised
       /\ ~x.raised
       /\ {"sections_changed", "topics_touched"} \subseteq DOMAIN x.value.fields
       /\ ~ContractChangeResult_model_validate(model_dump(x.value)).raised

\* C1: every call to compare returns a ProcessingResult and never raises,
\* whichever collaborator fails (parser, agents, validation, progress
\* callback, tracing).
C1_CompareNeverRaises ==
    entry = "service" => outcome # "raised"

\* C2: the collaborator invocations of a compare call are a prefix of
\* parse(original), parse(amendment), contextualize, extract, each at most
\* once; a call that returns success made exactly these four, in order.
C2_StageSequencing ==
    entry = "service" =>
        /\ IsPrefix(CallIds, StageOrder)
        /\ (Returned /\ ret.status = "success" => CallIds = StageOrder)

C2_Witness ==
    /\ entry = "service"
    /\ Returned
    /\ ret.status = "success"
    /\ CallIds = StageOrder

\* C3: once a stage has raised, no later stage is invoked in that call, and
\* the envelope returned has status error, a null result, the stringified
\* exception as error and a non-null processing_time_ms.
C3_FailureShortCircuit ==
    entry = "service" =>
        \A i \in FailedSpans :
            /\ \A j \in (i + 1)..Len(log) :
                   log[j].ev \notin {"span_open", "call", "validate"}
            /\ Returned =>
                   /\ ret.status = "error"
                   /\ ret.result = None
                   /\ ret.error = PyStr(Str(log[i].error))
                   /\ "processing_time_ms" \in DOMAIN ret
                   /\ ret.processing_time_ms \in Nat

C3_Witness ==
    /\ entry = "service"
    /\ Returned
    /\ \E i \in FailedSpans : log[i].name = "parse_amendment_contract"
    /\ ret.status = "error"

\* C4: every envelope built by compare or by process_contracts has exactly
\* one of result and error non-null, status success iff result is non-null,
\* status error iff error is non-null, and a result that is never partial.
C4_EnvelopeExclusivity ==
    (entry \in {"service", "cli"} /\ ret # None) =>
        /\ (ret.result # None) # (ret.error # None)
        /\ (ret.status = "success") <=> (ret.result # None)
        /\ (ret.status = "error") <=> (ret.error # None)
        /\ (ret.result # None) =>
               /\ ret.result = locals.validated_changes
               /\ SatisfiesInvariants(ret.result)

C4_Witness ==
    /\ entry = "cli"
    /\ Returned
    /\ ret.status = "error"
    /\ locals.changes # None
    /\ ret.result = None

\* C5: a progress callback that raises does not abort the pipeline: the
\* envelope's status and result are those of a run whose callback never
\* raises.
C5_CallbackCannotAbort ==
    (entry = "service" /\ Returned) =>
        /\ (ret.status = "success") <=> AllStagesSucceed
        /\ AllStagesSucceed =>
               ret.result = extraction_run(extraction_agent, locals.contextualization).value

ExtractionReturnedInvalid ==
    /\ \E i \in 1..Len(log) : log[i].ev = "call" /\ log[i].fn = "extraction_agent.run"
    /\ LET x == extraction_run(extraction_agent, locals.contextualization) IN
       /\ ~x.raised
       /\ ~SatisfiesInvariants(x.value)

\* C6: a success envelope carries a result that satisfies every
\* ContractChangeResult invariant, and when the extraction agent returned a
\* value that violates one the call ends in status error with a null result.
C6_SuccessImpliesValid ==
    (entry = "service" /\ ret # None) =>
        /\ (ret.status = "success" => SatisfiesInvariants(ret.result))
        /\ (ExtractionReturnedInvalid => ret.status = "error" /\ ret.result = None)

C6_Witness ==
    /\ entry = "service"
    /\ Returned
    /\ ExtractionReturnedInvalid
    /\ \E i \in 1..Len(log) : log[i].ev = "validate"
    /\ ret.status = "error"

MissingOrEmpty(d, f) == f \notin DOMAIN d \/ d[f] = PyList(<<>>)
NonEmptyList(d, f) == f \in DOMAIN d /\ d[f].t = "list" /\ Len(d[f].v) > 0
UsableSummary(d) ==
    /\ "summary_of_the_change" \in DOMAIN d
    /\ d["summary_of_the_change"].t = "str"
    /\ Len(d["summary_of_the_change"].v) >= 50

\* C7: the extraction stage raises on an unparsable payload; on a parsable
\* one with a usable summary it returns, with sections_changed = ["General"]
\* when the payload's is missing or empty, topics_touched = ["Contract
\* Terms"] likewise, and non-empty lists passed through unchanged.
C7_FallbackSubstitution ==
    (m_input.kind = "upstream" /\ Len(m_result) >= 1 /\ m_input.v.kind = "content") =>
        LET c == m_input.v.content
            r == m_result[1]
        IN IF c.t = "text" THEN r.raised
           ELSE /\ ( /\ UsableSummary(c.v)
                     /\ \A f \in {"sections_changed", "topics_touched"} :
                            MissingOrEmpty(c.v, f) \/ NonEmptyList(c.v, f) )
                   => ~r.raised
                /\ ~r.raised =>
                     /\ MissingOrEmpty(c.v, "sections_changed") =>
                            r.value.fields["sections_changed"] = PyList(<<"General">>)
                     /\ MissingOrEmpty(c.v, "topics_touched") =>
                            r.value.fields["topics_touched"] = PyList(<<"Contract Terms">>)
                     /\ \A f \in {"sections_changed", "topics_touched"} :
                            NonEmptyList(c.v, f) => r.value.fields[f] = c.v[f]

C7_Witness ==
    /\ m_input.kind = "upstream"
    /\ m_pc = "extracted"
    /\ m_input.v.kind = "content"
    /\ m_input.v.content.t = "json"
    /\ "sections_changed" \notin DOMAIN m_input.v.content.v
    /\ NonEmptyList(m_input.v.content.v, "topics_touched")
    /\ ~m_result[1].raised
    /\ m_result[1].value.fields["sections_changed"] = PyList(<<"General">>)

\* C8: when the upstream payload omits summary_of_the_change the stage
\* substitutes a generic sentence and returns, so a compare call whose other
\* stages succeed returns status success.
C8_MissingSummarySubstituted ==
    ( /\ entry = "service"
      /\ Returned
      /\ langfuse = "ok"
      /\ progress_callback \in {None, [raises_at |-> 0]}
      /\ parser = [original |-> "ok", amendment |-> "ok"]
      /\ contextualization_agent = "ok"
      /\ extraction_agent.impl = "openai"
      /\ extraction_agent.upstream.kind = "content"
      /\ extraction_agent.upstream.content.t = "json"
      /\ "summary_of_the_change" \notin DOMAIN extraction_agent.upstream.content.v ) =>
        /\ ret.status = "success"
        /\ ret.result.fields["summary_of_the_change"] =
               PyStr("Changes detected between contracts.")

Offending(d, f) ==
    \/ f \notin DOMAIN d
    \/ IF f = "summary_of_the_change"
       THEN d[f].t # "str" \/ Len(d[f].v) <= 49
       ELSE d[f].t # "list" \/ Len(d[f].v) = 0

\* C9: validation accepts an input iff sections_changed and topics_touched
\* are non-empty lists and summary_of_the_change is present with at least 50
\* characters; a rejection names every offending field.
C9_ValidationAccepts ==
    (m_input.kind = "dict" /\ Len(m_result) >= 1) =>
        LET d == m_input.v
            r == m_result[1]
        IN /\ ~r.raised <=> ( /\ NonEmptyList(d, "sections_changed")
                              /\ NonEmptyList(d, "topics_touched")
                              /\ UsableSummary(d) )
           /\ r.raised =>
                  /\ r.exc.type = "ValidationError"
                  /\ r.exc.fields = {f \in FieldSet : Offending(d, f)}
                  /\ r.exc.fields # {}

C9_Witness ==
    /\ m_input.kind = "dict"
    /\ m_pc = "validated"
    /\ NonEmptyList(m_input.v, "sections_changed")
    /\ NonEmptyList(m_input.v, "topics_touched")
    /\ "summary_of_the_change" \in DOMAIN m_input.v
    /\ m_input.v["summary_of_the_change"] = SummaryOfLength(50)
    /\ ~m_result[1].raised

C11_TraceIdOnEveryEnvelope ==
    Returned =>
        /\ trace.entered = 1
        /\ \E i \in 1..Len(log) : log[i].ev = "trace_open"
        /\ trace.trace_id # None
        /\ ret.trace_id = trace.trace_id

\* a success envelope and the trace it was produced under
C11_Witness ==
    /\ entry = "service"
    /\ Returned
    /\ ret.status = "success"
    /\ ret.trace_id = trace.trace_id
    /\ trace.trace_id # None

\* positions of the log holding an event of kind e
EventsOf(e) == {i \in 1..Len(log) : log[i].ev = e}

\* events of the five stages and of the progress reports around them
StageActivity == {"progress", "span_open", "call", "validate", "span_close"}

Percentages == [i \in 1..Len(ProgressEvents(log)) |-> ProgressEvents(log)[i].progress]

\* a span of stage k was closed without error before position i of the log
StageSucceededBefore(k, i) ==
    \E j \in 1..(i - 1) :
        /\ log[j].ev = "span_close"
        /\ log[j].name = SpanName[k]
        /\ log[j].error = None

\* C13: the percentages reported to the progress callback form a strictly
\* increasing prefix of 10, 20, 30, 40, 50, 60, 70, 85, 90, 100; the report
\* ahead of a stage comes before that stage's collaborator is invoked, the
\* report after a stage only after the stage returned successfully, and 100
\* only after all five stages succeeded.
C13_ProgressOrdering ==
    /\ IsPrefix(Percentages, <<10, 20, 30, 40, 50, 60, 70, 85, 90, 100>>)
    /\ \A i, j \in 1..Len(Percentages) : i < j => Percentages[i] < Percentages[j]
    /\ \A i \in 1..Len(log) :
           log[i].ev = "progress" =>
               /\ progress_callback # None
               /\ \A k \in 1..NumStages :
                      log[i].progress = (<<10, 30, 50, 70, 90>>)[k] =>
                          \A j \in 1..(i - 1) :
                              log[j].ev = "span_open" => log[j].name # SpanName[k]
               /\ \A k \in 1..(NumStages - 1) :
                      log[i].progress = (<<20, 40, 60, 85>>)[k] => StageSucceededBefore(k, i)
               /\ log[i].progress = 100 =>
                      \A k \in 1..NumStages : StageSucceededBefore(k, i)

\* a full run under a callback that never raises: all ten reports were made
C13_Witness ==
    /\ entry = "service"
    /\ progress_callback = [raises_at |-> 0]
    /\ Returned
    /\ ret.status = "success"
    /\ Percentages = <<10, 20, 30, 40, 50, 60, 70, 85, 90, 100>>

\* requests handled so far
Handled == 1..Len(requests)

\* job ids that were submitted
Submitted(job_id) == \E r \in Handled : requests[r].job_id = job_id

\* the request this step answered, when the step answered a POST /compare
Answered(async_mode) ==
    /\ http # None
    /\ http.endpoint = "compare"
    /\ requests[http.r].async_mode = async_mode

\* C14: submitting an asynchronous job is answered "queued" before any stage
\* of its pipeline runs; a poll of the job before its pipeline has completed
\* returns pending or processing; a poll after completion returns success or
\* error with completed_at set.
C14_AsyncJobLifecycle ==
    /\ Answered(TRUE) =>
           /\ http.code = 200
           /\ http.body.status = "queued"
           /\ requests[http.r].pc = "queued"
    /\ \A r \in Handled :
           requests[r].async_mode =>
               LET poll == JobStatusResponse(requests[r].job_id) IN
               /\ poll.code = 200
               /\ requests[r].pc \in {"queued", "running"} =>
                      poll.body.status \in {"pending", "processing"}
               /\ requests[r].pc = "done" =>
                      /\ poll.body.status \in {"success", "error"}
                      /\ poll.body.completed_at # None

\* C15: for a given job id the progress value returned by the progress
\* endpoint never decreases from one poll to a later one and is always within
\* 0..100, whatever the interleaving of submissions, progress-callback writes,
\* completion writes and polls.
C15_ProgressMonotone ==
    /\ [](\A job_id \in DOMAIN jobs_store :
              ProgressResponse(job_id).body.progress \in 0..100)
    /\ [][\A job_id \in DOMAIN jobs_store :
              job_id \in DOMAIN jobs_store' =>
                  ProgressResponse(job_id).body.progress
                      <= (ProgressResponse(job_id).body.progress)']_vars

\* the step just taken is the submission of job_id
SubmittedInStep(job_id) ==
    /\ Len(requests') > Len(requests)
    /\ requests'[Len(requests')].job_id = job_id

\* C16: a job record, once created, stays in the store, and the created_at
\* written at submission is still there, unchanged, after the job has
\* completed, so the status endpoint goes on returning it.
C16_RecordsKeepCreatedAt ==
    [][\A job_id \in DOMAIN jobs_store :
          /\ job_id \in DOMAIN jobs_store'
          /\ ~SubmittedInStep(job_id) =>
                 /\ JobStatusResponse(job_id).body.created_at # None
                 /\ (JobStatusResponse(job_id).body.created_at)'
                        = JobStatusResponse(job_id).body.created_at]_vars

\* ids a client may ask about: the caller-chosen ones and the generated ones
KnownIds == PollIds \cup {JobIdOf(None, r) : r \in 1..MaxRequests} \cup {PyStr("never-used")}

\* C17: the status and progress endpoints answer 404 for a job id exactly when
\* that id was never submitted; an id that was submitted is never answered
\* with 404 afterwards.
C17_NotFoundIffNeverSubmitted ==
    /\ \A job_id \in KnownIds \cup DOMAIN jobs_store :
           /\ JobStatusResponse(job_id).code = 404 <=> ~Submitted(job_id)
           /\ ProgressResponse(job_id).code = 404 <=> ~Submitted(job_id)
           /\ JobStatusResponse(job_id).code \in {200, 404}
           /\ ProgressResponse(job_id).code \in {200, 404}
    /\ (http # None /\ http.endpoint \in {"status", "progress"}) =>
           (http.code = 404 <=> ~Submitted(http.job_id))

\* the status endpoint answers 200 for a job whose comparison ended in error
C17_Witness ==
    /\ http # None
    /\ http.endpoint = "status"
    /\ http.code = 200
    /\ \E r \in Handled :
           /\ requests[r].job_id = http.job_id
           /\ requests[r].async_mode
           /\ requests[r].pc = "done"
           /\ requests[r].result.status = "error"

\* C18: when compare returns an envelope with status error in synchronous
\* mode, the request is answered with a normal 200 whose status is "error"
\* and whose error, result, trace_id and processing_time_ms are the
\* envelope's; the answer is derived from nothing but that envelope.
C18_SyncResponseMirrorsEnvelope ==
    (Answered(FALSE) /\ requests[http.r].pc = "done") =>
        LET result == requests[http.r].result IN
        /\ http.code = 200
        /\ http.body.job_id = result.contract_id
        /\ http.body.status = result.status
        /\ http.body.result = result.result
        /\ http.body.error = result.error
        /\ http.body.trace_id = result.trace_id
        /\ http.body.processing_time_ms = result.processing_time_ms
        /\ result.status = "error" =>
               /\ http.body.status = "error"
               /\ http.body.result = None
               /\ http.body.error # None

\* a synchronous request whose comparison failed, answered 200 / "error"
C18_Witness ==
    /\ Answered(FALSE)
    /\ requests[http.r].pc = "done"
    /\ requests[http.r].result.status = "error"
    /\ http.code = 200
    /\ http.body.status = "error"
    /\ http.body.error = requests[http.r].result.error

\* the command put the envelope's JSON where --output (or its absence) says
JsonEmitted ==
    IF Truthy(command.output)
    THEN command.written = model_dump_json(ret)
    ELSE \E i \in 1..Len(command.stdout) :
             command.stdout[i] = [line |-> "json_output", v |-> model_dump_json(ret)]

\* C19: the `compare` command exits with code 0 exactly when the result has
\* status success; when either input file is missing it exits non-zero without
\* running the pipeline; when the pipeline returns status error the JSON
\* result is still written and the exit is non-zero.
C19_CliExitStatus ==
    entry = "cli" =>
        /\ command.exited <=> pc = "exited"
        /\ command.exited =>
               /\ command.exit_code = 0 <=> (Returned /\ ret.status = "success")
               /\ (~command.original_exists \/ ~command.amendment_exists) =>
                      /\ command.exit_code # 0
                      /\ log = <<>> /\ trace = NoTrace /\ ret = None
                      /\ command.stdout = <<>> /\ command.written = None
               /\ Returned => JsonEmitted
               /\ (Returned /\ ret.status = "error") => command.exit_code # 0

\* a run whose pipeline failed: the error envelope was written to the output
\* file and the command exited with code 1
C19_Witness ==
    /\ entry = "cli"
    /\ command.exited
    /\ Returned
    /\ ret.status = "error"
    /\ Truthy(command.output)
    /\ command.written = model_dump_json(ret)
    /\ command.exit_code = 1

\* the message of this run is a well-formed request
WellFormed == ~ParseRequest(message.body).raised

\* C20: for a well-formed request that names a reply queue the worker
\* publishes exactly one reply, to that queue, carrying the request's job_id
\* and contract_id, the envelope's status, result and error, and the inbound
\* correlation id; without a reply queue nothing is published.
C20_ReplyProtocol ==
    (message # None /\ pc = "acked" /\ message.broker = "ok") =>
        /\ ~Truthy(message.reply_to) => message.published = <<>>
        /\ (WellFormed /\ Truthy(message.reply_to)) =>
               /\ Len(message.published) = 1
               /\ LET request == ParseRequest(message.body).value
                      reply == message.published[1] IN
                  /\ reply.routing_key = message.reply_to
                  /\ reply.correlation_id = message.correlation_id
                  /\ reply.body.v.job_id = request.job_id
                  /\ reply.body.v.contract_id = request.contract_id
                  /\ reply.body.v.status \in {"success", "error"}
                  /\ (reply.body.v.status = "success") <=> (reply.body.v.result # None)
                  /\ (reply.body.v.status = "error") <=> (reply.body.v.error # None)


\* C21: the queue worker never has more than one job in flight: at most one
\* delivered message is unacknowledged at any time, and a message's compare
\* starts only when the compare of every message delivered before it has
\* returned and that message has been acknowledged
C21_OneJobInFlight ==
    /\ [](Cardinality(Unacked) <= 1)
    /\ [][\A t \in 1..Len(worker.tasks)' :
             (/\ (worker.tasks[t].pc)' = "comparing"
              /\ t \in 1..Len(worker.tasks) => worker.tasks[t].pc # "comparing")
             => \A u \in 1..Len(worker.tasks) :
                    u # t => worker.tasks[u].pc = "acked"]_vars

\* a second message's compare running after the first was compared, answered
\* and acknowledged
C21_Witness ==
    /\ Len(worker.tasks) = 2
    /\ worker.tasks[1].pc = "acked"
    /\ worker.tasks[1].published # <<>>
    /\ worker.tasks[2].pc = "comparing"


\* the step is one of a request whose job id is job_id: its submission, one of
\* its progress reports, or its completion
StepOfJob(job_id) ==
    \E r \in 1..Len(requests') :
        /\ requests'[r].job_id = job_id
        /\ r \in 1..Len(requests) => requests'[r] # requests[r]

\* C22: jobs with different ids never collide in the job store: a job's
\* record changes only in the steps of a request carrying that job id, so
\* every submission, progress update and completion of one job leaves the
\* records of all other job ids as they were, under every interleaving
C22_DistinctJobsNeverCollide ==
    [][\A job_id \in DOMAIN jobs_store :
          \/ job_id \in DOMAIN jobs_store' /\ jobs_store'[job_id] = jobs_store[job_id]
          \/ StepOfJob(job_id)]_vars

\* two synchronous jobs with different ids running at once, both of which
\* have written progress
C22_Witness ==
    /\ Len(requests) = 2
    /\ requests[1].job_id # requests[2].job_id
    /\ \A r \in 1..2 : requests[r].pc = "running" /\ requests[r].reports > 0

\* the sub-record is the one one single write left: the submission's, or the
\* dict of the report whose write stamped it
WrittenAtOnce(p) ==
    IF p.updated_at.at = "created"
    THEN p = [progress |-> 0, step |-> "Starting", message |-> "Initializing processing",
              updated_at |-> p.updated_at]
    ELSE /\ p.updated_at.at = "progress"
         /\ p.updated_at.n \in 1..(2 * NumStages)
         /\ p = DictSet(ProgressData(p.updated_at.n), "updated_at", p.updated_at)

\* C23: a progress update replaces the job's progress sub-record as a whole:
\* the stored step, progress and message always come from one single write,
\* the submission's or one callback invocation's, never from a mixture
C23_ProgressReplacedWhole ==
    \A job_id \in DOMAIN jobs_store :
        "progress" \in DOMAIN jobs_store[job_id]
        => WrittenAtOnce(jobs_store[job_id].progress)

\* two synchronous jobs sharing one job id have both reported progress into
\* the same record
C23_Witness ==
    /\ Len(requests) = 2
    /\ requests[1].job_id = requests[2].job_id
    /\ \A r \in 1..2 : ~requests[r].async_mode /\ requests[r].reports > 1
    /\ "progress" \in DOMAIN jobs_store[requests[1].job_id]


\* the contextualization run under test has ended
Contextualized == m_pc = "contextualized"

\* the upstream answered with something other than a JSON object that holds
\* a list under corresponding_sections
MalformedContextualization(upstream) ==
    \/ upstream.kind = "error"
    \/ upstream.content.t # "json"
    \/ ~IsDict(upstream.content.v)
    \/ "corresponding_sections" \notin DOMAIN upstream.content.v
    \/ upstream.content.v.corresponding_sections.t # "list"

\* C24: contextualization keeps an empty mapping apart from malformed
\* upstream output: a response that is unparsable or structurally invalid
\* (such as a payload lacking corresponding_sections) makes run raise, and a
\* result with empty corresponding_sections is returned only when the
\* upstream payload held an empty mapping
C24_EmptyMappingOnlyWhenExplicit ==
    Contextualized =>
        LET upstream == m_input.v.upstream
            r == m_result[1] IN
        /\ MalformedContextualization(upstream) => r.raised
        /\ (~r.raised /\ r.value.corresponding_sections = PyList(<<>>))
               => (/\ ~MalformedContextualization(upstream)
                   /\ upstream.content.v.corresponding_sections = PyList(<<>>))

\* C25: contextualization forwards both parsed structures verbatim: the
\* result's original_structure is the original passed in and its
\* amendment_structure the amendment passed in, not exchanged, and the two
\* inputs are what they were before the run
C25_StructuresForwardedVerbatim ==
    (Contextualized /\ ~m_result[1].raised) =>
        /\ m_result[1].value.original_structure = MockDocument("original")
        /\ m_result[1].value.amendment_structure = MockDocument("amendment")
        /\ m_input.v.original_doc = MockDocument("original")
        /\ m_input.v.amendment_doc = MockDocument("amendment")

\* either agent has returned a result with a mapping in it
C25_Witness ==
    /\ Contextualized
    /\ ~m_result[1].raised
    /\ Len(m_result[1].value.corresponding_sections.v) > 0
    /\ m_result[1].value.original_structure # m_result[1].value.amendment_structure

Relationships == {PyStr("modified"), PyStr("added"), PyStr("removed"), PyStr("unchanged")}

\* C26: every mapping record in a returned result's corresponding_sections
\* has the fields original_section, amendment_section and relationship, and
\* its relationship is one of modified, added, removed, unchanged
C26_MappingRecordsWellFormed ==
    (Contextualized /\ ~m_result[1].raised) =>
        \A i \in 1..Len(m_result[1].value.corresponding_sections.v) :
            LET s == m_result[1].value.corresponding_sections.v[i] IN
            /\ {"original_section", "amendment_section", "relationship"} \subseteq DOMAIN s
            /\ s.relationship \in Relationships


\* a parse under test has ended
ParseEnded == m_pc = "parsed"

\* the image reference is missing, of an unsupported format, or oversized
BadImage(image) ==
    \/ ~image.exists
    \/ lower(image.suffix) \notin SUPPORTED_FORMATS
    \/ image.st_size > MAX_IMAGE_SIZE_MB * MegaByte

\* C27: the parsing stage of a vision parser fails with an error, before any
\* upstream vision call, whenever the image reference is missing, has a
\* format outside jpg, jpeg, png, gif, webp, or is larger than 20 MB; none of
\* these is silently defaulted
C27_BadImageRejectedBeforeUpstream ==
    (ParseEnded /\ m_input.v.parser # "mock" /\ BadImage(m_input.v.image)) =>
        /\ m_result[1].outcome.raised
        /\ m_result[1].calls = <<>>

\* the payload's key holds a string of at least n characters
TextOfLength(payload, key, n) ==
    key \in DOMAIN payload /\ payload[key].t = "str" /\ Len(payload[key].v) >= n

\* the upstream answered with a JSON object
AnsweredObject(upstream) ==
    upstream.kind = "content" /\ upstream.content.t = "json"

\* the parser reaches the upstream call for this image
Accepted(p, image) ==
    IF p = "legacy" THEN ~BadImage(image) ELSE image.exists

\* C28: whenever parse returns, the DocumentStructure is valid: title
\* non-empty, sections non-empty, full_text of at least 10 characters,
\* document_type the requested one; an upstream payload with no or empty
\* sections yields sections == ['General'], while one with a missing or too
\* short full_text or an empty title makes parse raise; the mock parser's
\* documents satisfy the same for both document types
C28_ParsedDocumentValid ==
    ParseEnded =>
        LET i == m_input.v
            r == m_result[1].outcome IN
        /\ ~r.raised =>
              /\ Len(r.value.title) >= 1
              /\ Len(r.value.sections) >= 1
              /\ Len(r.value.full_text) >= 10
              /\ r.value.document_type = i.document_type
        /\ (i.parser # "mock" /\ Accepted(i.parser, i.image) /\ AnsweredObject(i.upstream)) =>
              LET payload == i.upstream.content.v IN
              /\ (/\ MissingOrEmpty(payload, "sections")
                  /\ TextOfLength(payload, "full_text", 10)
                  /\ "title" \in DOMAIN payload => TextOfLength(payload, "title", 1))
                     => ~r.raised /\ r.value.sections = <<"General">>
              /\ (\/ ~TextOfLength(payload, "full_text", 10)
                  \/ ("title" \in DOMAIN payload /\ payload.title = PyStr("")))
                     => r.raised
        /\ i.parser = "mock" => ~r.raised

\* a vision parser has returned a document whose sections were substituted
C28_Witness ==
    /\ ParseEnded
    /\ m_input.v.parser = "openai"
    /\ ~m_result[1].outcome.raised
    /\ m_result[1].outcome.value.sections = <<"General">>
    /\ m_result[1].calls # <<>>


\* C29: every ProcessingResult accepted by validation has a status of
\* success or error, exactly one of result and error non-null, and status
\* success exactly when result is non-null
C29_AcceptedEnvelopeConsistent ==
    (m_pc = "envelope" /\ ~m_result[1].raised) =>
        LET envelope == m_result[1].value IN
        /\ envelope.status \in {"success", "error"}
        /\ (envelope.result # None) # (envelope.error # None)
        /\ envelope.status = "success" <=> envelope.result # None


\* C30: the envelope compare returns carries exactly the contract_id the
\* caller supplied whenever one was supplied, whatever string it is, and a
\* fresh id only when none was supplied; the same identifier tags the trace
\* scope
C30_ContractIdPreserved ==
    (entry = "service" /\ ret # None) =>
        /\ arg_contract_id # None => ret.contract_id = arg_contract_id
        /\ arg_contract_id = None => ret.contract_id = PyStr("uuid4-1")
        /\ trace.session_id = ret.contract_id


\* what each stage of this call returns on the call's collaborators
StageResults ==
    LET p1 == parser_parse(parser, OriginalImagePath, "original")
        p2 == parser_parse(parser, AmendmentImagePath, "amendment")
        c == contextualization_run(contextualization_agent, p1.value, p2.value)
        x == extraction_run(extraction_agent, c.value)
    IN [original_doc |-> p1, amendment_doc |-> p2, contextualization |-> c, changes |-> x]

\* C31: data flows from stage to stage in compare: the parser is called with
\* (original reference, 'original') and then (amendment reference,
\* 'amendment'); contextualization receives exactly the two documents those
\* calls returned, original first; extraction receives exactly the result
\* contextualization returned; a success envelope's result is the extraction
\* output as re-validated, so with a mock parser and stubs returning
\* sections_changed ['2. Terms'] the envelope is a success with that list
C31_StageDataFlow ==
    entry = "service" =>
        LET calls == CallEvents(log)
            n == Len(calls) IN
        /\ n >= 1 => calls[1].args = <<OriginalImagePath, "original">>
        /\ n >= 2 => calls[2].args = <<AmendmentImagePath, "amendment">>
        /\ n >= 3 => calls[3].args = <<StageResults.original_doc.value,
                                       StageResults.amendment_doc.value>>
        /\ n >= 4 => calls[4].args = <<StageResults.contextualization.value>>
        /\ (ret # None /\ ret.status = "success") =>
               ret.result = ContractChangeResult_model_validate(
                                model_dump(StageResults.changes.value)).value
        /\ (/\ Returned
            /\ AllStagesSucceed
            /\ langfuse = "ok"
            /\ progress_callback = None
            /\ extraction_agent = [impl |-> "stub", returns |-> Return(StubChanges)]) =>
               /\ ret.status = "success"
               /\ ret.result.fields.sections_changed = PyList(<<"2. Terms">>)

\* a compare on the mock parser and the stub agents has returned its success
\* envelope after all four calls
C31_Witness ==
    /\ entry = "service"
    /\ Returned
    /\ Len(CallEvents(log)) = 4
    /\ extraction_agent = [impl |-> "stub", returns |-> Return(StubChanges)]
    /\ ret.status = "success"
    /\ ret.result.fields.sections_changed = PyList(<<"2. Terms">>)


\* positions of the log at which a span named name was opened / closed
Opened(name) == {i \in 1..Len(log) : log[i].ev = "span_open" /\ log[i].name = name}
Closed(name) == {i \in 1..Len(log) : log[i].ev = "span_close" /\ log[i].name = name}
SpanEvents == {"span_open", "span_close"}

\* C32: every stage span compare opens is closed exactly once, also when its
\* stage raises; stage spans never overlap (a span is closed before the next
\* one is opened); and every stage span is closed before the enclosing trace
\* scope is closed
C32_SpansClosedOnce ==
    entry = "service" =>
        /\ \A k \in 1..NumStages :
               /\ Cardinality(Opened(SpanName[k])) <= 1
               /\ Cardinality(Closed(SpanName[k])) = Cardinality(Opened(SpanName[k]))
        /\ \A i \in 1..Len(log) :
               log[i].ev = "span_open" =>
                   \E j \in (i + 1)..Len(log) :
                       /\ log[j].ev = "span_close"
                       /\ log[j].name = log[i].name
                       /\ \A m \in (i + 1)..(j - 1) : log[m].ev \notin SpanEvents
        /\ \A i \in 1..Len(log) :
               log[i].ev = "span_close" =>
                   /\ log[i].name \in {SpanName[k] : k \in 1..NumStages}
                   /\ \E j \in 1..(i - 1) : log[j].ev = "span_open" /\ log[j].name = log[i].name
                   /\ \A j \in 1..(i - 1) : log[j].ev # "trace_close"

\* a stage raised inside its span, the span was closed with the error, and
\* the trace scope was closed after it
C32_Witness ==
    /\ entry = "service"
    /\ Returned
    /\ \E i \in FailedSpans : log[i].name = "agent2_extraction"
    /\ Cardinality(Closed("parse_original_contract")) = 1
    /\ log[Len(log) - 1].ev = "trace_close"


GenerationsStarted == SelectSeq(m_result[1].generations, LAMBDA e : e.ev = "generation_start")
GenerationsEnded == SelectSeq(m_result[1].generations, LAMBDA e : e.ev = "generation_end")

\* C33: every generation record a parsing or extraction stage opens for its
\* upstream call is ended exactly once on every path: when the upstream
\* call succeeds, when it raises, and when reading the image fails before
\* the call is made
C33_GenerationEndedOnce ==
    m_pc = "traced" => Len(GenerationsEnded) = Len(GenerationsStarted)


\* the message each kind of upstream failure is reported with, per stage
KindMessage(stage_name, cls) ==
    IF stage_name = "parse"
    THEN CASE cls = "RateLimitError" -> "OpenAI rate limit exceeded. Please wait and retry."
           [] cls = "APITimeoutError" -> "OpenAI API timeout. The image may be too large."
           [] cls = "APIConnectionError" -> "Failed to connect to OpenAI API. Check your network."
           [] cls = "APIError" -> "OpenAI API error"
    ELSE CASE cls = "RateLimitError" -> "OpenAI rate limit exceeded"
           [] cls = "APITimeoutError" -> "OpenAI API timeout"
           [] cls = "APIConnectionError" -> "Failed to connect to OpenAI API"
           [] cls = "APIError" -> "OpenAI API error"

\* the stage (1..4) whose upstream call fails in this run and the class it
\* fails with; stage 0 when the stage was not reached or does not fail so
UpstreamFailure ==
    LET n == Len(CallEvents(log)) IN
    IF n >= 1 /\ n <= 2 /\ parser[CallEvents(log)[n].args[2]] \in ApiErrorClasses
    THEN [stage |-> n, name |-> "parse", cls |-> parser[CallEvents(log)[n].args[2]]]
    ELSE IF /\ n = 4
            /\ extraction_agent.impl = "openai"
            /\ extraction_agent.upstream.kind = "error"
            /\ extraction_agent.upstream.cls \in ApiErrorClasses
    THEN [stage |-> 4, name |-> "extraction", cls |-> extraction_agent.upstream.cls]
    ELSE [stage |-> 0]

\* C34: an upstream failure of a parsing or extraction stage is classified
\* as one of four kinds (rate limit, timeout, connection failure, other API
\* error), each with a message distinct from the other three and the most
\* specific kind winning; the failure ends the compare call (the failing
\* stage is called once, no later stage runs) and its message is the error
\* field of the returned envelope
C34_UpstreamFailureKinds ==
    /\ \A s \in {"parse", "extraction"} : \A c1, c2 \in ApiErrorClasses :
           c1 # c2 => KindMessage(s, c1) # KindMessage(s, c2)
    /\ (entry = "service" /\ UpstreamFailure.stage # 0) =>
           LET f == UpstreamFailure IN
           /\ Len(CallEvents(log)) = f.stage
           /\ \A i \in 1..Len(log) : log[i].ev # "validate"
           /\ Returned =>
                  /\ ret.status = "error"
                  /\ ret.result = None
                  /\ ret.error = PyStr(KindMessage(f.name, f.cls))

\* a timeout of the extraction call, returned as an error envelope
C34_Witness ==
    /\ entry = "service"
    /\ Returned
    /\ UpstreamFailure.stage = 4
    /\ UpstreamFailure.cls = "APITimeoutError"
    /\ ret.error = PyStr("OpenAI API timeout")


\* C35: the output recorded on the root trace span when the trace scope is
\* closed agrees with the envelope compare returns: status error (with the
\* error text) whenever the envelope's status is error, and status success
\* only when the envelope's status is success
C35_RootOutputAgreesWithEnvelope ==
    (entry = "service" /\ Returned /\ trace.exited = 1) =>
        /\ trace.root_output # None
        /\ trace.root_output.status = ret.status
        /\ ret.status = "error" =>
               /\ "error" \in DOMAIN trace.root_output
               /\ PyStr(trace.root_output.error) = ret.error


\* request r was accepted in async mode
AcceptedAsync(r) == r \in 1..Len(requests) /\ requests[r].async_mode

\* the record of request r's job is terminal
TerminalRecord(r) ==
    /\ r \in 1..Len(requests)
    /\ LET job == jobs_store[requests[r].job_id] IN
       /\ job["status"] \in {"success", "error"}
       /\ job["completed_at"] # None

\* C36: every job accepted in async mode eventually reaches a terminal
\* record (status success or error, completed_at set) and does not stay
\* pending forever, the background task being scheduled and every
\* collaborator call in it returning or raising
C36_AsyncJobsTerminate ==
    \A r \in 1..MaxRequests : AcceptedAsync(r) ~> TerminalRecord(r)


\* C37: whenever the job store reports status success for a job, the
\* progress endpoint reports progress 100 for it, in sync and in async mode
C37_SuccessMeansFullProgress ==
    \A job_id \in DOMAIN jobs_store :
        jobs_store[job_id]["status"] = "success" =>
            ProgressResponse(job_id).body.progress = 100

\* the same, restricted to sync requests whose job id no other request used
SyncSuccessMeansFullProgress ==
    \A r \in 1..Len(requests) :
        (/\ ~requests[r].async_mode
         /\ requests[r].pc = "done"
         /\ \A q \in 1..Len(requests) : q # r => requests[q].job_id # requests[r].job_id
         /\ jobs_store[requests[r].job_id]["status"] = "success") =>
            ProgressResponse(requests[r].job_id).body.progress = 100


\* how far process_message has got with a delivered message
Rank(p) ==
    CASE p = "scheduled" -> 1
      [] p = "comparing" -> 2
      [] p = "replying" -> 3
      [] p = "acking" -> 4
      [] p = "acked" -> 5

\* the correlation ids of the messages in the queue and of those delivered
QueuedIds == [i \in 1..Len(worker.ready) |-> worker.ready[i].correlation_id]
DeliveredIds == [t \in 1..Len(worker.tasks) |-> worker.tasks[t].correlation_id]

\* no message is in the queue or delivered twice
NeverRedelivered ==
    LET ids == QueuedIds \o DeliveredIds IN
    \A i, j \in 1..Len(ids) : i # j => ids[i] # ids[j]

\* the pipeline is not invoked for a malformed payload
MalformedNeverCompared ==
    \A t \in 1..Len(worker.tasks) :
        ParseRequest(worker.tasks[t].body).raised =>
            /\ worker.tasks[t].pc \in {"scheduled", "acking", "acked"}
            /\ worker.tasks[t].result = None

\* a delivered message only moves forward: service.compare is entered from
\* the start of process_message only, the acknowledgement is given on leaving
\* message.process() only, and nothing happens to an acknowledged message
OnlyForward ==
    /\ Len(worker'.tasks) >= Len(worker.tasks)
    /\ \A t \in 1..Len(worker.tasks) :
           LET old == worker.tasks[t]
               new == worker'.tasks[t] IN
           /\ new.correlation_id = old.correlation_id
           /\ Rank(new.pc) >= Rank(old.pc)
           /\ (new.pc = "comparing" /\ old.pc # "comparing") => old.pc = "scheduled"
           /\ (new.pc = "acked" /\ old.pc # "acked") => old.pc = "acking"
           /\ old.pc = "acked" => new = old

\* C38: every message the queue worker consumes is acknowledged exactly once
\* and never requeued or retried, whatever the outcome (success, error
\* envelope, malformed payload, failed publish of the reply); the pipeline is
\* invoked at most once per message and not at all for a malformed payload
C38_AckedExactlyOnce ==
    /\ [](NeverRedelivered /\ MalformedNeverCompared)
    /\ [][OnlyForward]_vars
    /\ \A t \in 1..MaxMessages :
           (t \in 1..Len(worker.tasks))
               ~> (t \in 1..Len(worker.tasks) /\ worker.tasks[t].pc = "acked")

\* a malformed message and a message whose reply could not be published,
\* both acknowledged
C38_Witness ==
    /\ entry = "worker"
    /\ Len(worker.tasks) = 2
    /\ \A t \in 1..2 : worker.tasks[t].pc = "acked"
    /\ ParseRequest(worker.tasks[1].body).raised
    /\ worker.tasks[2].result # None
    /\ worker.tasks[2].published = <<>>
    /\ worker.tasks[2].printed # <<>>


\* the orchestration both entry points are meant to perform, as a function
\* of the collaborators alone: the stage that fails first (0: none) with its
\* exception, how many stage spans are opened and how many collaborator
\* calls are made
ReferenceRun ==
    LET p1 == parser_parse(parser, OriginalImagePath, "original")
        p2 == parser_parse(parser, AmendmentImagePath, "amendment")
        c == contextualization_run(contextualization_agent, p1.value, p2.value)
        x == extraction_run(extraction_agent, c.value)
        v == ContractChangeResult_model_validate(model_dump(x.value))
        failed(k, e) == [stage |-> k, exc |-> e, spans |-> k, calls |-> IF k < 5 THEN k ELSE 4]
    IN
    IF langfuse = "span"
    THEN [stage |-> 1, exc |-> Exception("TracingError", "span could not be started"),
          spans |-> 0, calls |-> 0]
    ELSE IF p1.raised THEN failed(1, p1.exc)
    ELSE IF p2.raised THEN failed(2, p2.exc)
    ELSE IF c.raised THEN failed(3, c.exc)
    ELSE IF x.raised THEN failed(4, x.exc)
    ELSE IF ~({"sections_changed", "topics_touched"} \subseteq DOMAIN x.value.fields)
    THEN failed(4, Exception("AttributeError", "object has no attribute"))
    ELSE IF v.raised THEN failed(5, v.exc)
    ELSE [stage |-> 0, value |-> v.value, spans |-> 5, calls |-> 4]

\* the envelope of the reference orchestration
ReferenceEnvelope ==
    LET r == ReferenceRun IN
    IF r.stage = 0
    THEN [status |-> "success", result |-> r.value, error |-> None,
          trace_id |-> PyStr("trace-1")]
    ELSE [status |-> "error", result |-> None, error |-> PyStr(Str(r.exc)),
          trace_id |-> PyStr("trace-1")]

SpansOpened == SelectSeq(log, LAMBDA e : e.ev = "span_open")
SpansClosed == SelectSeq(log, LAMBDA e : e.ev = "span_close")

\* the run made the reference's calls and opened and closed its spans
SameStagesAsReference ==
    LET r == ReferenceRun IN
    /\ CallIds = SubSeq(StageOrder, 1, r.calls)
    /\ [i \in 1..Len(SpansOpened) |-> SpansOpened[i].name] = SubSeq(SpanName, 1, r.spans)
    /\ [i \in 1..Len(SpansClosed) |-> SpansClosed[i].name] = SubSeq(SpanName, 1, r.spans)

\* the run returned the reference's envelope
SameEnvelopeAsReference ==
    /\ ret.status = ReferenceEnvelope.status
    /\ ret.result = ReferenceEnvelope.result
    /\ ret.error = ReferenceEnvelope.error
    /\ ret.trace_id = ReferenceEnvelope.trace_id

\* a call of either entry point, made without a progress callback, returned
BothEntries == entry \in {"service", "cli"} /\ progress_callback = None /\ Returned

\* C39: the CLI pipeline process_contracts and the service's compare are
\* equivalent orchestrations: for the same collaborators they run the same
\* stages in the same order, stop at the same stage on failure, open and
\* close the same spans, and return envelopes with the same status, result,
\* error message and trace_id
C39_CliRefinesService ==
    BothEntries => (SameStagesAsReference /\ SameEnvelopeAsReference)

\* the same but for the error text of a stage that raises ValidationError
EquivalentButValidationText ==
    BothEntries =>
        /\ SameStagesAsReference
        /\ ret.status = ReferenceEnvelope.status
        /\ ret.result = ReferenceEnvelope.result
        /\ ret.trace_id = ReferenceEnvelope.trace_id
        /\ ret.error # ReferenceEnvelope.error =>
               /\ entry = "cli"
               /\ ReferenceRun.exc.type = "ValidationError"
               /\ ret.error = PyStr("Validation error: " \o Str(ReferenceRun.exc))

\* compare alone agrees with the reference
ServiceMatchesReference ==
    (BothEntries /\ entry = "service") => (SameStagesAsReference /\ SameEnvelopeAsReference)

====
